---- MODULE Spec2Model ----
(***************************************************************************)
(* Frame acquisition and buffering of the vmbsrc element (gstvmbsrc.c):    *)
(* the buffer pool, the capture session, the filled-frame queue shared by   *)
(* the driver callback and the streaming thread, the pull operation         *)
(* gst_vmbsrc_create and the format commit gst_vmbsrc_set_caps.             *)
(***************************************************************************)
EXTENDS Integers, Sequences, FiniteSets, TLC

\* ------------------------------------------------------------------------
\* Bounds
\* ------------------------------------------------------------------------
NUM_FRAME_BUFFERS == 2
MaxFrames == 2
MaxQueues == 3

\* Threads that create and finalize elements, and the number of elements
\* created in one run
NumThreads == 2

MaxCreations == 3

Buffers == 1..NUM_FRAME_BUFFERS

\* ------------------------------------------------------------------------
\* Format table: device formats, the pipeline formats they map to and the
\* number of bytes one pixel takes in them.
\* ------------------------------------------------------------------------
DeviceFormats == {"Mono8", "RGB8"}

RequestedFormats == {"GRAY8", "RGB", "I420"}

PayloadSizeOf(fmt) == IF fmt = "RGB8" THEN 3 ELSE 1

supported_formats ==
    << [gst_format_name |-> "GRAY8", vimbax_format_name |-> "Mono8"],
       [gst_format_name |-> "RGB",   vimbax_format_name |-> "RGB8"],
       [gst_format_name |-> "rggb",  vimbax_format_name |-> "BayerRG8"] >>

\* Variant: a format the list does not hold falls back to the first entry.
LookupFormat_Default(gst_format) ==
    LET hits == { i \in 1..Len(supported_formats) :
                    supported_formats[i].gst_format_name = gst_format }
    IN  supported_formats[IF hits = {} THEN 1
                          ELSE CHOOSE i \in hits : \A j \in hits : i <= j].vimbax_format_name

\* The lookup loop of gst_vmbsrc_set_caps: the first matching entry, or
\* "NONE" when the list holds none.
LookupFormat(gst_format) ==
    LET hits == { i \in 1..Len(supported_formats) :
                    supported_formats[i].gst_format_name = gst_format }
    IN  IF hits = {} THEN "NONE"
        ELSE supported_formats[CHOOSE i \in hits : \A j \in hits : i <= j].vimbax_format_name

\* ------------------------------------------------------------------------
\* The sensor of the device: its extent in pixels and the step of the
\* offset features.  INT_MAX is the value of the width and height
\* properties that asks for the full sensor.
\* ------------------------------------------------------------------------
INT_MAX == 2147483647

SensorWidth == 6

SensorHeight == 2

OffsetIncrement == 2

\* ------------------------------------------------------------------------
\* State
\* ------------------------------------------------------------------------
VARIABLES
    vmbsrc,      \* the element: camera flags, frame_buffers, properties, counters
    dev,         \* the device and its driver: capture engine, announced and queued frames
    fq,          \* the GAsyncQueue objects: the live one (0 when none), its content,
                 \* and the number the next new one gets
    phase,       \* life cycle of the element as the base class drives it
    runState,    \* the element state gst_element_get_state reports
    pc,          \* position of the streaming thread inside gst_vmbsrc_create
    frame,       \* local variable frame of gst_vmbsrc_create (0 is NULL)
    out,         \* the GstBuffer under construction in gst_vmbsrc_create
    lastResult,  \* what the last gst_vmbsrc_create call returned
    emitted,     \* history: the buffers returned with GST_FLOW_OK, in order
    pushedLog,   \* history: frames pushed onto the live queue since it was created
    poppedLog,   \* history: frames popped from the live queue since it was created
    callLog,     \* history: the steps of the current gst_vmbsrc_create call
    stalePolls,  \* history: pops the current call made while the state was not PLAYING
    capsLog,     \* history: the gst_vmbsrc_set_caps call that returned last, kept
                 \* until the next call into the element begins
    heap,        \* the memory of the frame buffers the element allocated itself
    discarded,   \* history: ids of the frames that waited in a queue when
                 \* gst_vmbsrc_set_caps replaced it
    settingsLog, \* history: the apply_feature_settings call of the last
                 \* gst_vmbsrc_start, kept until gst_vmbsrc_stop
    capsQuery,   \* history: the gst_vmbsrc_get_caps call that returned last
    propRead,    \* history: the gst_vmbsrc_get_property call that returned last
    lib          \* the VmbC library: vmb_open_count, its lock, the threads that
                 \* create and finalize elements

vars == << vmbsrc, dev, fq, phase, runState, pc, frame, out, lastResult,
           emitted, pushedLog, poppedLog, callLog, stalePolls, capsLog,
           heap, discarded, settingsLog, capsQuery, propRead, lib >>

\* memset(&frame, 0, sizeof(VmbFrame_t)); VmbFrameStatusComplete is 0
ZeroFrame ==
    [buffer |-> "NULL", bufferSize |-> 0, context |-> 0,
     receiveStatus |-> "Complete", frameID |-> 0, data |-> 0]

NoOut == [size |-> 0, timestamp |-> "unset", data |-> 0, flags |-> "unset",
          buffer_flags |-> {}, offset |-> 0, offset_end |-> 0,
          src_frameID |-> 0, src_status |-> "Complete", src_buffer |-> 0]

NoCaps == [called |-> FALSE, requested |-> "none", ret |-> FALSE, result |-> "Success",
           matched |-> FALSE, capacity |-> 0, payload |-> 0, readable |-> FALSE,
           ev |-> << >>, bufcalls |-> << >>, acquiring |-> FALSE, rejected |-> "none"]

\* live: the buffers whose descriptor points to memory from VmbAlignedAlloc
\* that was not freed; lost: blocks never freed that no descriptor points to;
\* badFree: memory was freed that was not a live block of the element.
NoHeap == [live |-> {}, lost |-> 0, badFree |-> FALSE]

\* The capabilities of the pad template: GST_VIDEO_CAPS_MAKE with all raw
\* formats, then GST_BAYER_CAPS_MAKE with all Bayer formats; width, height
\* and framerate are ranges.
RangeOfInt == [fixed |-> FALSE, value |-> 0]

FixedInt(v) == [fixed |-> TRUE, value |-> v]

TemplateCaps ==
    << [name |-> "video/x-raw", format |-> << "GRAY8", "RGB", "I420" >>,
        width |-> RangeOfInt, height |-> RangeOfInt, framerate |-> "range"],
       [name |-> "video/x-bayer", format |-> << "bggr", "gbrg", "grbg", "rggb" >>,
        width |-> RangeOfInt, height |-> RangeOfInt, framerate |-> "range"] >>

NoQuery == [called |-> FALSE, connected |-> FALSE, caps |-> TemplateCaps, calls |-> << >>]

NoSettings == [called |-> FALSE, was_acquiring |-> FALSE, acquiring |-> FALSE,
               streaming |-> FALSE, result |-> "Success", calls |-> << >>, ev |-> << >>]

NoRead == [called |-> FALSE, id |-> "none", value |-> 0, ok |-> FALSE, device |-> "none"]

\* vmb_open_count with its lock (0: free, else the thread that holds it),
\* where each thread is in gst_vmbsrc_init or gst_vmbsrc_finalize, the
\* outcome of the thread's test of the counter, and the calls of VmbStartup
\* and VmbShutdown made so far.
Threads == 1..NumThreads

NoLibrary ==
    [count |-> 0, lock |-> 0, up |-> FALSE,
     tpc |-> [t \in Threads |-> "none"], seen |-> [t \in Threads |-> 0],
     startups |-> 0, shutdowns |-> 0, ups |-> 0, downs |-> 0, created |-> 0]

\* The library with the one element of the pipeline, created by thread 1
OneElement ==
    [NoLibrary EXCEPT !.count = 1, !.up = TRUE, !.tpc[1] = "live",
                      !.startups = 1, !.ups = 1, !.created = 1]

\* gst_vmbsrc_init: the element after construction, every property at the
\* default of its specification.
NewElement ==     [is_connected |-> FALSE, is_acquiring |-> FALSE,
                 frame_buffers |-> [i \in Buffers |-> ZeroFrame],
                 filled_frame_queue |-> 0,
                 num_frames_pushed |-> 0,
                 incomplete_frame_handling |-> "DROP",
                 allocation_mode |-> "ANNOUNCE_FRAME",
                 exposuretime |-> 0, exposureauto |-> "Off",
                 balancewhiteauto |-> "Off", gain |-> 0,
                 offsetx |-> 0, offsety |-> 0, width |-> INT_MAX, height |-> INT_MAX,
                 triggerselector |-> "UNCHANGED", triggermode |-> "UNCHANGED",
                 triggersource |-> "UNCHANGED", triggeractivation |-> "UNCHANGED"]

\* The camera before the element has opened it, with the full sensor as
\* its region of interest.
NewDevice == [engine |-> FALSE, acquiring |-> FALSE, announced |-> {},
              captureQueue |-> << >>, pixelFormat |-> "Mono8", nextFrameID |-> 1,
              roi |-> [Width |-> SensorWidth, Height |-> SensorHeight,
                       OffsetX |-> 0, OffsetY |-> 0]]

InitIdle ==
    /\ fq = [live |-> 0, content |-> << >>, next |-> 1]
    /\ phase = "null"
    /\ runState = "READY"
    /\ pc = "idle"
    /\ frame = 0
    /\ out = NoOut
    /\ lastResult = "none"
    /\ emitted = << >>
    /\ pushedLog = << >>
    /\ poppedLog = << >>
    /\ callLog = << >>
    /\ stalePolls = 0
    /\ capsLog = NoCaps
    /\ heap = NoHeap
    /\ discarded = {}
    /\ settingsLog = NoSettings
    /\ capsQuery = NoQuery
    /\ propRead = NoRead

InitPipeline ==
    /\ InitIdle
    /\ lib = OneElement

Init ==
    /\ vmbsrc = NewElement
    /\ dev = NewDevice
    /\ InitPipeline


\* ------------------------------------------------------------------------
\* Device calls that can be rejected.  One call per operation may be
\* rejected; at names the call, i the loop index for calls made in a loop.
\* ------------------------------------------------------------------------
NoFault == [at |-> "none", i |-> 0]

Fault(a) == [at |-> a, i |-> 0]

FaultAt(a, k) == [at |-> a, i |-> k]

SetCapsFaults ==
    {NoFault} \cup { Fault(a) : a \in {"acqstop", "pixfmt", "payload", "payload2",
                                       "capstart", "acqstart", "isdone", "videoinfo"} }
              \cup { FaultAt(a, k) : a \in {"alloc", "announce", "queue"}, k \in Buffers }

StartFaults == {NoFault, Fault("open")}

StopFaults == {NoFault, Fault("acqstop")}

\* ------------------------------------------------------------------------
\* The driver's side of the frame calls
\* ------------------------------------------------------------------------
InSeq(x, s) == \E k \in 1..Len(s) : s[k] = x

\* VmbCaptureFrameQueue is accepted for an announced frame that is not
\* already waiting in the capture queue.
DevCanQueue(d, b) == b \in d.announced /\ ~InSeq(b, d.captureQueue)

DevQueueFrame(d, b) ==
    IF DevCanQueue(d, b) THEN [d EXCEPT !.captureQueue = Append(@, b)] ELSE d

\* VmbFrameRevoke: the frame is no longer known to the driver.
DevRevoke(d, b) ==
    [d EXCEPT !.announced = @ \ {b},
              !.captureQueue = SelectSeq(@, LAMBDA x : x # b)]

\* VmbPayloadSizeGet: the bytes of one frame of the region of interest in
\* the device's pixel format
PayloadSize(d) == d.roi.Width * d.roi.Height * PayloadSizeOf(d.pixelFormat)

\* The frames waiting in the live queue, oldest first, with their frame ids
QueueEntries ==
    [k \in 1..Len(fq.content) |->
        [buf |-> fq.content[k], id |-> vmbsrc.frame_buffers[fq.content[k]].frameID]]

\* The element, the device and the queue objects as one value, with the
\* result of the last call and the calls made so far.
World == [src |-> vmbsrc, dev |-> dev, q |-> fq, heap |-> heap, result |-> "Success",
          ev |-> << >>, bufcalls |-> << >>, calls |-> << >>]

\* filled_frame_queue = g_async_queue_new().  Queue objects are named by
\* numbers, 0 is NULL; a new object gets a number never used before.
NewQueue(w) ==
    [w EXCEPT !.q = [live |-> w.q.next, content |-> << >>, next |-> w.q.next + 1],
              !.src.filled_frame_queue = w.q.next]

UnrefQueue(w) ==
    [w EXCEPT !.q.live = IF @ = w.src.filled_frame_queue THEN 0 ELSE @,
              !.q.content = IF w.q.live = w.src.filled_frame_queue THEN << >> ELSE @]

\* ------------------------------------------------------------------------
\* stop_image_acquisition
\* ------------------------------------------------------------------------
stop_image_acquisition(w, fault) ==
    LET cmdOK == fault.at # "acqstop"
        doneOK == fault.at # "stopdone"
        endOK == fault.at # "capend"
    IN  [w EXCEPT !.dev.acquiring = IF cmdOK THEN FALSE ELSE @,
                  !.src.is_acquiring = FALSE,
                  !.dev.engine = IF endOK THEN FALSE ELSE @,
                  !.dev.captureQueue = << >>,
                  !.result = IF endOK THEN "Success" ELSE "Error",
                  !.ev = w.ev \o << IF cmdOK THEN "AcquisitionStop" ELSE "AcquisitionStopFailed",
                                    IF doneOK THEN "StopIsDone" ELSE "StopIsDoneFailed",
                                    IF endOK THEN "CaptureEnd" ELSE "CaptureEndFailed",
                                    "QueueFlush" >>]

\* ------------------------------------------------------------------------
\* The memory of the frame buffers.  A descriptor's buffer is "NULL", "APP"
\* (memory from VmbAlignedAlloc) or "TL" (memory of the transport layer).
\* ------------------------------------------------------------------------
BufCall(c, i, ok) == [call |-> c, i |-> i, ok |-> ok]

\* VmbAlignedFree(ptr) and free(ptr) for the pointer held by descriptor i
FreeMemory(h, i, ptr) ==
    IF ptr = "NULL" THEN h
    ELSE IF ptr = "APP" /\ i \in h.live THEN [h EXCEPT !.live = @ \ {i}]
    ELSE [h EXCEPT !.badFree = TRUE]

\* The pointer held by descriptor i is overwritten without a free
ForgetMemory(h, i, ptr) ==
    IF ptr = "APP" /\ i \in h.live THEN [h EXCEPT !.live = @ \ {i}, !.lost = @ + 1] ELSE h

\* ------------------------------------------------------------------------
\* revoke_and_free_buffers
\* ------------------------------------------------------------------------
RECURSIVE RevokeLoop(_, _)
RevokeLoop(w, i) ==
    IF i > NUM_FRAME_BUFFERS THEN w
    ELSE IF w.src.frame_buffers[i].buffer # "NULL"
         THEN LET ptr == w.src.frame_buffers[i].buffer
                  own == w.src.allocation_mode = "ANNOUNCE_FRAME"
              IN  RevokeLoop([w EXCEPT
                      !.dev = DevRevoke(w.dev, i),
                      !.heap = IF own THEN FreeMemory(@, i, ptr) ELSE ForgetMemory(@, i, ptr),
                      !.src.frame_buffers[i] = ZeroFrame,
                      !.bufcalls = @ \o << BufCall("VmbFrameRevoke", i, TRUE) >>
                                     \o (IF own THEN << BufCall("VmbAlignedFree", i, TRUE) >>
                                         ELSE << >>)], i + 1)
         ELSE RevokeLoop(w, i + 1)

revoke_and_free_buffers(w) ==
    LET r == RevokeLoop(w, 1) IN [r EXCEPT !.ev = Append(w.ev, "revoke")]

\* ------------------------------------------------------------------------
\* alloc_and_announce_buffers
\* ------------------------------------------------------------------------
\* Variant: a rejected announce zeroes the descriptor without freeing.
AnnounceRejected_NoFree(w, i) ==
    [w EXCEPT !.src.frame_buffers[i] = ZeroFrame,
              !.bufcalls = Append(@, BufCall("VmbFrameAnnounce", i, FALSE)),
              !.result = "Error"]

\* VmbFrameAnnounce returned an error for descriptor i: free(buffer),
\* memset of the descriptor, break.
AnnounceRejected(w, i) ==
    [w EXCEPT !.heap = FreeMemory(@, i, w.src.frame_buffers[i].buffer),
              !.src.frame_buffers[i] = ZeroFrame,
              !.bufcalls = @ \o << BufCall("VmbFrameAnnounce", i, FALSE),
                                   BufCall("free", i, TRUE) >>,
              !.result = "Error"]

RECURSIVE AllocLoop(_, _, _, _)
AllocLoop(w, i, payload_size, fault) ==
    IF i > NUM_FRAME_BUFFERS THEN w
    ELSE LET own == w.src.allocation_mode = "ANNOUNCE_FRAME"
             old == w.src.frame_buffers[i].buffer
         IN  IF own /\ fault = FaultAt("alloc", i)
             THEN [w EXCEPT !.src.frame_buffers[i].buffer = "NULL",
                            !.heap = ForgetMemory(@, i, old),
                            !.bufcalls = Append(@, BufCall("VmbAlignedAlloc", i, FALSE)),
                            !.result = "Resources"]
             ELSE LET w1 == [w EXCEPT
                                !.src.frame_buffers[i].buffer = IF own THEN "APP" ELSE "NULL",
                                !.src.frame_buffers[i].bufferSize = payload_size,
                                !.src.frame_buffers[i].context = w.src.filled_frame_queue,
                                !.heap = IF own
                                         THEN [ForgetMemory(@, i, old) EXCEPT !.live = @ \cup {i}]
                                         ELSE ForgetMemory(@, i, old),
                                !.bufcalls = IF own
                                             THEN Append(@, BufCall("VmbAlignedAlloc", i, TRUE))
                                             ELSE @]
                  IN  IF fault = FaultAt("announce", i)
                      THEN AnnounceRejected(w1, i)
                      ELSE AllocLoop([w1 EXCEPT
                                         !.dev.announced = @ \cup {i},
                                         !.bufcalls = Append(@, BufCall("VmbFrameAnnounce", i, TRUE)),
                                         !.result = "Success"],
                                     i + 1, payload_size, fault)

alloc_and_announce_buffers(w, fault) ==
    LET w0 == [w EXCEPT !.ev = Append(@, "alloc")]
    IN  IF fault.at = "payload2"
        THEN [w0 EXCEPT !.result = "Error"]
        ELSE AllocLoop([w0 EXCEPT !.result = "Success"], 1, PayloadSize(w.dev), fault)

\* ------------------------------------------------------------------------
\* start_image_acquisition
\* ------------------------------------------------------------------------
RECURSIVE QueueLoop(_, _, _)
QueueLoop(w, i, fault) ==
    IF i > NUM_FRAME_BUFFERS THEN w
    ELSE IF fault = FaultAt("queue", i) \/ ~DevCanQueue(w.dev, i)
         THEN [w EXCEPT !.result = "Error", !.ev = Append(@, "FrameQueueFailed")]
         ELSE QueueLoop([w EXCEPT !.dev = DevQueueFrame(w.dev, i),
                                  !.ev = Append(@, "FrameQueue")], i + 1, fault)

\* The assignment at the end of the start branch: the flag is raised
\* whatever the command and its confirmation returned.
AcquiringAfterStart(cmdOK, doneOK) == TRUE

start_image_acquisition(w, fault) ==
    LET w0 == [w EXCEPT !.ev = Append(@, "start")]
    IN  IF fault.at = "capstart"
        THEN [w0 EXCEPT !.result = "Error", !.ev = Append(@, "CaptureStartFailed")]
        ELSE LET w1 == QueueLoop([w0 EXCEPT !.dev.engine = TRUE, !.result = "Success",
                                            !.ev = Append(@, "CaptureStart")], 1, fault)
             IN  IF w1.result # "Success" THEN w1
                 ELSE LET cmdOK == fault.at # "acqstart"
                          doneOK == fault.at # "isdone"
                      IN  [w1 EXCEPT !.dev.acquiring = IF cmdOK THEN TRUE ELSE @,
                                     !.src.is_acquiring =
                                         IF AcquiringAfterStart(cmdOK, doneOK) THEN TRUE ELSE @,
                                     !.result = IF cmdOK THEN "Success" ELSE "Error",
                                     !.ev = @ \o << IF cmdOK THEN "AcquisitionStart"
                                                              ELSE "AcquisitionStartFailed",
                                                    IF doneOK THEN "IsDone" ELSE "IsDoneFailed" >>]


\* ------------------------------------------------------------------------
\* The filled-frame queue (GAsyncQueue)
\* ------------------------------------------------------------------------
g_async_queue_push(content, x) == Append(content, x)

\* Variant: the pop hands out the newest element instead of the oldest.
PopFrame_Newest(content) == IF content = << >> THEN 0 ELSE content[Len(content)]

\* g_async_queue_timeout_pop: the oldest element, or 0 (NULL) on timeout
PopFrame(content) == IF content = << >> THEN 0 ELSE Head(content)

\* Variant: the popped element stays in the queue.
PopRest_Keep(content) == content

PopRest(content) == IF content = << >> THEN << >> ELSE Tail(content)

\* ------------------------------------------------------------------------
\* vimbax_frame_callback, run by the driver for the frame it has filled.
\* The driver takes the oldest frame of the capture queue, writes payload,
\* receiveStatus and frameID, and calls back.  The callback pushes onto the
\* queue stored in context[0]; when that queue object has been released the
\* push is undefined: it can land in the queue that took its place, be lost,
\* or stop the process.
\* ------------------------------------------------------------------------
PushOutcomes(target) ==
    IF target # 0 /\ target = fq.live THEN {"pushed"}
    ELSE IF fq.live # 0 THEN {"pushed", "lost", "crash"}
    ELSE {"lost", "crash"}

vimbax_frame_callback(status, outcome) ==
    /\ phase # "crashed"
    /\ dev.engine /\ dev.acquiring
    /\ dev.captureQueue # << >>
    /\ dev.nextFrameID <= MaxFrames
    /\ LET b == Head(dev.captureQueue)
           id == dev.nextFrameID
       IN  /\ outcome \in PushOutcomes(vmbsrc.frame_buffers[b].context)
           /\ dev' = [dev EXCEPT !.captureQueue = Tail(@), !.nextFrameID = id + 1]
           /\ vmbsrc' = [vmbsrc EXCEPT !.frame_buffers[b] =
                            [@ EXCEPT !.receiveStatus = status, !.frameID = id, !.data = id,
                                      !.buffer = IF @ = "NULL" THEN "TL" ELSE @]]
           /\ IF outcome = "pushed"
              THEN /\ fq' = [fq EXCEPT !.content = g_async_queue_push(@, b)]
                   /\ pushedLog' = Append(pushedLog, [buf |-> b, id |-> id])
              ELSE UNCHANGED << fq, pushedLog >>
           /\ phase' = IF outcome = "crash" THEN "crashed" ELSE phase
    /\ UNCHANGED << lib, propRead, capsQuery, runState, pc, frame, out, lastResult, emitted, poppedLog,
                    callLog, stalePolls, capsLog,
                    heap, discarded, settingsLog >>

\* ------------------------------------------------------------------------
\* gst_vmbsrc_create, one action per step of the streaming thread
\* ------------------------------------------------------------------------
CreateBegin ==
    /\ phase = "negotiated" /\ pc = "idle" /\ runState = "PLAYING"
    /\ pc' = "pop"
    /\ frame' = 0
    /\ out' = NoOut
    /\ lastResult' = "running"
    /\ callLog' = << >>
    /\ stalePolls' = 0
    /\ capsLog' = NoCaps
    /\ UNCHANGED << lib, propRead, capsQuery, vmbsrc, dev, fq, phase, runState, emitted, pushedLog, poppedLog,
                    heap, discarded, settingsLog >>

\* frame = g_async_queue_timeout_pop(filled_frame_queue, 10)
CreatePop ==
    /\ phase = "negotiated" /\ pc = "pop"
    /\ frame' = PopFrame(fq.content)
    /\ fq' = [fq EXCEPT !.content = IF frame' = 0 THEN @ ELSE PopRest(@)]
    /\ IF frame' = 0
       THEN UNCHANGED << lib, propRead, capsQuery, poppedLog, callLog >>
       ELSE /\ poppedLog' = Append(poppedLog, [buf |-> frame',
                                               id |-> vmbsrc.frame_buffers[frame'].frameID])
            /\ callLog' = Append(callLog, "pop")
    /\ stalePolls' = IF runState # "PLAYING" THEN stalePolls + 1 ELSE stalePolls
    /\ pc' = "check"
    /\ UNCHANGED << lib, propRead, capsQuery, vmbsrc, dev, phase, runState, out, lastResult, emitted, pushedLog,
                    capsLog,
                    heap, discarded, settingsLog >>

\* Variant: the state is looked at only after a timeout, not after a pop
\* that returned a frame.
AfterStateCheck_OnTimeoutOnly(state, fr) ==
    IF fr # 0 THEN "status"
    ELSE IF state # "PLAYING" THEN "flushing" ELSE "pop"

\* Where the wait loop goes after the state was read: out with
\* GST_FLOW_FLUSHING, on to the receive status, or round again.
AfterStateCheck(state, fr) ==
    IF state # "PLAYING" THEN "flushing"
    ELSE IF fr = 0 THEN "pop" ELSE "status"

\* gst_element_get_state and the test that follows it
CreateCheckState ==
    /\ phase = "negotiated" /\ pc = "check"
    /\ LET to == AfterStateCheck(runState, frame)
       IN  IF to = "flushing"
           THEN /\ pc' = "idle"
                /\ lastResult' = "FLUSHING"
                /\ frame' = 0
           ELSE /\ pc' = to
                /\ UNCHANGED << lib, propRead, capsQuery, lastResult, frame >>
    /\ UNCHANGED << lib, propRead, capsQuery, vmbsrc, dev, fq, phase, runState, out, emitted, pushedLog, poppedLog,
                    callLog, stalePolls, capsLog,
                    heap, discarded, settingsLog >>

\* Variant: the policy is not consulted, every frame is submitted.
FrameDecision_SubmitAll(receiveStatus, incomplete_frame_handling) == "submit"

\* Variant: an incomplete frame is dropped whatever the policy.
FrameDecision_DropAll(receiveStatus, incomplete_frame_handling) ==
    IF receiveStatus = "Incomplete" THEN "drop" ELSE "submit"

\* What is done with a popped frame: "submit" or "drop"
FrameDecision(receiveStatus, incomplete_frame_handling) ==
    IF receiveStatus = "Incomplete"
    THEN IF incomplete_frame_handling = "SUBMIT" THEN "submit" ELSE "drop"
    ELSE "submit"

CreateStatus ==
    /\ phase = "negotiated" /\ pc = "status"
    /\ LET d == FrameDecision(vmbsrc.frame_buffers[frame].receiveStatus,
                              vmbsrc.incomplete_frame_handling)
       IN  IF d = "drop"
           THEN /\ dev' = DevQueueFrame(dev, frame)
                /\ callLog' = Append(callLog, "drop_requeue")
                /\ frame' = 0
                /\ pc' = "pop"
           ELSE /\ pc' = "alloc"
                /\ UNCHANGED << lib, propRead, capsQuery, dev, callLog, frame >>
    /\ UNCHANGED << lib, propRead, capsQuery, vmbsrc, fq, phase, runState, out, lastResult, emitted, pushedLog,
                    poppedLog, stalePolls, capsLog,
                    heap, discarded, settingsLog >>

\* gst_buffer_new_and_alloc(frame->bufferSize); the result is used
\* unchecked, so a NULL result stops the process at the next line.
CreateAlloc(ok) ==
    /\ phase = "negotiated" /\ pc = "alloc"
    /\ IF ok
       THEN /\ out' = [NoOut EXCEPT !.size = vmbsrc.frame_buffers[frame].bufferSize,
                                    !.src_buffer = frame,
                                    !.src_frameID = vmbsrc.frame_buffers[frame].frameID,
                                    !.src_status = vmbsrc.frame_buffers[frame].receiveStatus]
            /\ callLog' = Append(callLog, "alloc")
            /\ pc' = "timestamp"
            /\ UNCHANGED phase
       ELSE /\ phase' = "crashed"
            /\ callLog' = Append(callLog, "allocfailed")
            /\ UNCHANGED << out, pc >>
    /\ UNCHANGED << lib, propRead, capsQuery, vmbsrc, dev, fq, runState, frame, lastResult, emitted, pushedLog,
                    poppedLog, stalePolls, capsLog,
                    heap, discarded, settingsLog >>

\* Variant: the frame is handed back to the device before its payload is
\* copied.
CreateTimestamp_Requeue ==
    /\ phase = "negotiated" /\ pc = "timestamp"
    /\ out' = [out EXCEPT !.timestamp = "set"]
    /\ dev' = DevQueueFrame(dev, frame)
    /\ callLog' = callLog \o << "timestamp", "requeue" >>
    /\ pc' = "copy"
    /\ UNCHANGED << lib, propRead, capsQuery, vmbsrc, fq, phase, runState, frame, lastResult, emitted, pushedLog,
                    poppedLog, stalePolls, capsLog,
                    heap, discarded, settingsLog >>

CreateTimestamp ==
    /\ phase = "negotiated" /\ pc = "timestamp"
    /\ out' = [out EXCEPT !.timestamp = "set"]
    /\ callLog' = Append(callLog, "timestamp")
    /\ pc' = "copy"
    /\ UNCHANGED << lib, propRead, capsQuery, vmbsrc, dev, fq, phase, runState, frame, lastResult, emitted, pushedLog,
                    poppedLog, stalePolls, capsLog,
                    heap, discarded, settingsLog >>

\* gst_buffer_fill(buffer, 0, frame->buffer, frame->bufferSize)
CreateCopy ==
    /\ phase = "negotiated" /\ pc = "copy"
    /\ out' = [out EXCEPT !.data = vmbsrc.frame_buffers[frame].data]
    /\ callLog' = Append(callLog, "copy")
    /\ pc' = "requeue"
    /\ UNCHANGED << lib, propRead, capsQuery, vmbsrc, dev, fq, phase, runState, frame, lastResult, emitted, pushedLog,
                    poppedLog, stalePolls, capsLog,
                    heap, discarded, settingsLog >>

\* VmbCaptureFrameQueue(handle, frame, &vimbax_frame_callback)
CreateRequeue ==
    /\ phase = "negotiated" /\ pc = "requeue"
    /\ dev' = DevQueueFrame(dev, frame)
    /\ callLog' = Append(callLog, "requeue")
    /\ pc' = "finish"
    /\ UNCHANGED << lib, propRead, capsQuery, vmbsrc, fq, phase, runState, frame, out, lastResult, emitted, pushedLog,
                    poppedLog, stalePolls, capsLog,
                    heap, discarded, settingsLog >>

\* Variant: the counter is advanced for the offset and again for offset_end.
NextFramesPushed_Twice(n) == n + 2

\* GST_BUFFER_OFFSET(buffer) = num_frames_pushed;
\* GST_BUFFER_OFFSET_END(buffer) = ++num_frames_pushed;
NextFramesPushed(n) == n + 1

\* video meta, offsets, *buf = buffer, return GST_FLOW_OK
CreateFinish ==
    /\ phase = "negotiated" /\ pc = "finish"
    /\ LET n == NextFramesPushed(vmbsrc.num_frames_pushed)
           b == [out EXCEPT !.flags = "NONE",
                            !.offset = vmbsrc.num_frames_pushed,
                            !.offset_end = n]
       IN  /\ vmbsrc' = [vmbsrc EXCEPT !.num_frames_pushed = n]
           /\ emitted' = Append(emitted, b)
           /\ out' = b
    /\ lastResult' = "OK"
    /\ frame' = 0
    /\ pc' = "idle"
    /\ UNCHANGED << lib, propRead, capsQuery, dev, fq, phase, runState, pushedLog, poppedLog, callLog, stalePolls, capsLog,
                    heap, discarded, settingsLog >>


\* ------------------------------------------------------------------------
\* gst_vmbsrc_set_caps
\* ------------------------------------------------------------------------
\* Variant: a failed read of the payload size is not taken into account.
NeedsReallocation_SizeOnly(bufferSize, new_payload_size, result) ==
    bufferSize < new_payload_size

\* The test that decides on a reallocation: the first buffer is too small
\* for the new payload, or the payload size could not be read.
NeedsReallocation(bufferSize, new_payload_size, result) ==
    bufferSize < new_payload_size \/ result # "Success"

\* Variant: the queue is kept across the format change.
ReplaceQueue_Keep(w) == [w EXCEPT !.ev = Append(w.ev, "newqueue")]

\* if (filled_frame_queue != NULL) { unref; filled_frame_queue = new }
ReplaceQueue(w) ==
    IF w.src.filled_frame_queue # 0
    THEN [NewQueue(UnrefQueue(w)) EXCEPT !.ev = Append(w.ev, "newqueue")]
    ELSE w

\* The body of gst_vmbsrc_set_caps after a device format was found.
\* garbage is what new_payload_size holds when VmbPayloadSizeGet failed and
\* left it unwritten.
SetCapsBody(w, vimbax_format, fault, garbage) ==
    LET w1 == stop_image_acquisition(w, fault)
        w2 == ReplaceQueue(w1)
    IN  IF fault.at = "pixfmt"
        THEN [w2 EXCEPT !.result = "Error", !.ev = Append(@, "PixelFormatFailed")]
        ELSE LET w3 == [w2 EXCEPT !.dev.pixelFormat = vimbax_format,
                                  !.ev = Append(@, "PixelFormat")]
                 result == IF fault.at = "payload" THEN "Error" ELSE "Success"
                 new_payload_size == IF result = "Success" THEN PayloadSize(w3.dev) ELSE garbage
                 w4 == IF NeedsReallocation(w3.src.frame_buffers[1].bufferSize,
                                            new_payload_size, result)
                       THEN alloc_and_announce_buffers(revoke_and_free_buffers(w3), fault)
                       ELSE [w3 EXCEPT !.result = result]
             IN  IF w4.result = "Success" THEN start_image_acquisition(w4, fault) ELSE w4

gst_vmbsrc_set_caps(gst_format, fault, garbage) ==
    /\ phase \in {"started", "negotiated"} /\ pc = "idle"
    /\ fq.next <= MaxQueues
    /\ LET vimbax_format == LookupFormat(gst_format)
       IN  IF vimbax_format = "NONE"
           THEN /\ fault = NoFault /\ garbage = 0
                /\ UNCHANGED << lib, propRead, capsQuery, heap, discarded >>
                /\ capsLog' = [NoCaps EXCEPT !.called = TRUE,
                                             !.requested = gst_format,
                                             !.result = "none",
                                             !.capacity = vmbsrc.frame_buffers[1].bufferSize,
                                             !.acquiring = vmbsrc.is_acquiring]
                /\ phase' = "error"
                /\ UNCHANGED << lib, propRead, capsQuery, vmbsrc, dev, fq, pushedLog, poppedLog >>
           ELSE /\ (fault.at # "payload" => garbage = 0)
                /\ \E w \in {SetCapsBody(World, vimbax_format, fault, garbage)} :
                   LET ret == w.result = "Success" /\ fault.at # "videoinfo"
                   IN  /\ vmbsrc' = w.src
                       /\ dev' = w.dev
                       /\ fq' = w.q
                       /\ heap' = w.heap
                       /\ capsLog' = [called |-> TRUE, requested |-> gst_format,
                                      ret |-> ret, result |-> w.result, matched |-> TRUE,
                                      capacity |-> vmbsrc.frame_buffers[1].bufferSize,
                                      payload |-> PayloadSize([dev EXCEPT !.pixelFormat = vimbax_format]),
                                      readable |-> fault.at \notin {"pixfmt", "payload"},
                                      ev |-> w.ev, bufcalls |-> w.bufcalls,
                                      acquiring |-> w.src.is_acquiring,
                                      rejected |-> fault.at]
                       /\ phase' = IF ret THEN "negotiated" ELSE "error"
                /\ pushedLog' = << >>
                /\ poppedLog' = << >>
                /\ discarded' = discarded \cup { QueueEntries[k].id : k \in 1..Len(fq.content) }
    /\ UNCHANGED << lib, propRead, capsQuery, runState, pc, frame, out, lastResult, emitted, callLog, stalePolls,
                    settingsLog >>

\* ------------------------------------------------------------------------
\* open_camera_connection, apply_feature_settings, gst_vmbsrc_start
\* ------------------------------------------------------------------------
open_camera_connection(w, fault) ==
    IF fault.at = "open"
    THEN [w EXCEPT !.src.is_connected = FALSE, !.src.is_acquiring = FALSE,
                   !.result = "Error"]
    ELSE [w EXCEPT !.src.is_connected = TRUE, !.src.is_acquiring = FALSE,
                   !.result = "Success"]

\* ------------------------------------------------------------------------
\* The driver's side of the feature calls.  A set is accepted when it is
\* not the rejected call and, for the ROI features, when the value lies in
\* the range the device reports in its present state: the width goes up
\* to the sensor width less the present OffsetX, the offset up to the
\* sensor width less the present Width, in steps of the increment.
\* ------------------------------------------------------------------------
FeatCall(w, c, f, v, n, ok) ==
    [call |-> c, feature |-> f, int |-> v, nick |-> n, ok |-> ok,
     active |-> w.src.is_acquiring \/ w.dev.engine]

RoiMax(d, f) ==
    CASE f = "Width"   -> SensorWidth - d.roi.OffsetX
      [] f = "Height"  -> SensorHeight - d.roi.OffsetY
      [] f = "OffsetX" -> SensorWidth - d.roi.Width
      [] f = "OffsetY" -> SensorHeight - d.roi.Height

RoiMin(f) == IF f \in {"Width", "Height"} THEN 1 ELSE 0

RoiIncrement(f) == IF f \in {"Width", "Height"} THEN 1 ELSE OffsetIncrement

RoiValid(d, f, v) ==
    /\ v >= RoiMin(f)
    /\ v <= RoiMax(d, f)
    /\ (v - RoiMin(f)) % RoiIncrement(f) = 0

\* VmbFeatureIntSet
VmbFeatureIntSet(w, fault, tag, f, v) ==
    LET ok == fault.at # tag /\ RoiValid(w.dev, f, v)
    IN  [w EXCEPT !.dev.roi[f] = IF ok THEN v ELSE @,
                  !.result = IF ok THEN "Success" ELSE "Error",
                  !.calls = Append(@, FeatCall(w, "VmbFeatureIntSet", f, v, "", ok))]

\* VmbFeatureEnumSet
VmbFeatureEnumSet(w, fault, tag, f, n) ==
    LET ok == fault.at # tag
    IN  [w EXCEPT !.result = IF ok THEN "Success" ELSE "Error",
                  !.calls = Append(@, FeatCall(w, "VmbFeatureEnumSet", f, 0, n, ok))]

\* VmbFeatureFloatSet
VmbFeatureFloatSet(w, fault, tag, f, v) ==
    LET ok == fault.at # tag
    IN  [w EXCEPT !.result = IF ok THEN "Success" ELSE "Error",
                  !.calls = Append(@, FeatCall(w, "VmbFeatureFloatSet", f, v, "", ok))]

\* VmbFeatureIntRangeQuery and VmbFeatureIntIncrementQuery: the call and
\* its result.  v is the maximum or the increment the device holds for the
\* feature; the caller has read it when the call succeeded.
VmbFeatureIntQuery(w, fault, tag, c, f, v) ==
    LET ok == fault.at # tag
    IN  [w EXCEPT !.result = IF ok THEN "Success" ELSE "Error",
                  !.calls = Append(@, FeatCall(w, c, f, v, "", ok))]

\* g_object_set of an int property: the value is brought into the range of
\* the property's specification before it is stored.
ClampProperty(v, lo) == IF v < lo THEN lo ELSE IF v > INT_MAX THEN INT_MAX ELSE v

\* RoundToNearestValidValue: the value of min + k * increment within
\* [min, max] that is nearest to the wanted one.
RoundToNearestValidValue(value, min, max, increment) ==
    IF value <= min THEN min
    ELSE LET top == max - ((max - min) % increment)
             down == value - ((value - min) % increment)
             up == down + increment
             near == IF 2 * (value - down) < increment THEN down ELSE up
         IN  IF value >= top THEN top
             ELSE IF near > top THEN top ELSE near

\* ------------------------------------------------------------------------
\* set_roi.  vmb_width and vmb_height are read by the range queries and
\* are not initialised: after a failed query they hold whatever the stack
\* held (garbage).
\* ------------------------------------------------------------------------
RoiOffset(w, fault, f, size, vmb_size) ==
    LET prop == IF f = "OffsetX" THEN "offsetx" ELSE "offsety"
        wanted == (vmb_size - size) \div 2
        q1 == VmbFeatureIntQuery(w, fault, f \o "Range", "VmbFeatureIntRangeQuery", f,
                                 RoiMax(w.dev, f))
        q2 == IF q1.result = "Success"
              THEN VmbFeatureIntQuery(q1, fault, f \o "Increment",
                                      "VmbFeatureIntIncrementQuery", f, RoiIncrement(f))
              ELSE q1
        valid == IF q2.result = "Success"
                 THEN RoundToNearestValidValue(wanted, RoiMin(f), RoiMax(q2.dev, f),
                                               RoiIncrement(f))
                 ELSE wanted
        w1 == IF w.src[prop] = -1
              THEN [q2 EXCEPT !.src[prop] = ClampProperty(valid, -1)]
              ELSE w
    IN  VmbFeatureIntSet(w1, fault, f, f, w1.src[prop])

RoiSize(w, fault, f, garbage) ==
    LET prop == IF f = "Width" THEN "width" ELSE "height"
        q == VmbFeatureIntQuery(w, fault, f \o "Range", "VmbFeatureIntRangeQuery", f,
                                RoiMax(w.dev, f))
        vmb_size == IF q.result = "Success" THEN RoiMax(q.dev, f) ELSE garbage
        w1 == IF q.src[prop] = INT_MAX
              THEN [q EXCEPT !.src[prop] = ClampProperty(vmb_size, 0)]
              ELSE q
    IN  [w |-> VmbFeatureIntSet(w1, fault, f, f, w1.src[prop]), vmb_size |-> vmb_size]

set_roi_SizeFirst(w, fault, garbage) ==
    LET x == RoiSize(w, fault, "Width", garbage)
        y == RoiSize(x.w, fault, "Height", garbage)
        w1 == VmbFeatureIntSet(y.w, fault, "OffsetXReset", "OffsetX", 0)
        w2 == VmbFeatureIntSet(w1, fault, "OffsetYReset", "OffsetY", 0)
        w3 == RoiOffset(w2, fault, "OffsetX", w2.src.width, x.vmb_size)
    IN  RoiOffset(w3, fault, "OffsetY", w3.src.height, y.vmb_size)

set_roi(w, fault, garbage) ==
    LET w1 == VmbFeatureIntSet(w, fault, "OffsetXReset", "OffsetX", 0)
        w2 == VmbFeatureIntSet(w1, fault, "OffsetYReset", "OffsetY", 0)
        x == RoiSize(w2, fault, "Width", garbage)
        y == RoiSize(x.w, fault, "Height", garbage)
        w3 == RoiOffset(y.w, fault, "OffsetX", y.w.src.width, x.vmb_size)
    IN  RoiOffset(w3, fault, "OffsetY", w3.src.height, y.vmb_size)

\* ------------------------------------------------------------------------
\* apply_trigger_settings
\* ------------------------------------------------------------------------
TriggerSet(w, fault, f, n) ==
    IF n = "UNCHANGED" THEN w ELSE VmbFeatureEnumSet(w, fault, f, f, n)

apply_trigger_settings_ModeFirst(w, fault) ==
    LET w0 == [w EXCEPT !.result = "Success"]
        w1 == TriggerSet(w0, fault, "TriggerMode", w.src.triggermode)
        w2 == TriggerSet(w1, fault, "TriggerSelector", w.src.triggerselector)
        w3 == TriggerSet(w2, fault, "TriggerActivation", w.src.triggeractivation)
    IN  TriggerSet(w3, fault, "TriggerSource", w.src.triggersource)

apply_trigger_settings(w, fault) ==
    LET w0 == [w EXCEPT !.result = "Success"]
        w1 == TriggerSet(w0, fault, "TriggerSelector", w.src.triggerselector)
        w2 == TriggerSet(w1, fault, "TriggerActivation", w.src.triggeractivation)
        w3 == TriggerSet(w2, fault, "TriggerSource", w.src.triggersource)
    IN  TriggerSet(w3, fault, "TriggerMode", w.src.triggermode)

\* ------------------------------------------------------------------------
\* apply_feature_settings.  Acquisition is stopped around the feature sets
\* and started again if it was running; the result is that of
\* apply_trigger_settings or of the restart.
\* ------------------------------------------------------------------------
SetExposureTime(w, fault) ==
    IF w.src.exposuretime > 0
    THEN IF fault.at = "ExposureTimeNotFound"
         THEN VmbFeatureFloatSet(VmbFeatureFloatSet(w, Fault("ExposureTime"), "ExposureTime",
                                                    "ExposureTime", w.src.exposuretime),
                                 fault, "ExposureTimeAbs", "ExposureTimeAbs",
                                 w.src.exposuretime)
         ELSE VmbFeatureFloatSet(w, fault, "ExposureTime", "ExposureTime",
                                 w.src.exposuretime)
    ELSE w

apply_feature_settings_Strict(w, fault, garbage) ==
    LET w2 == SetExposureTime(w, fault)
        w3 == VmbFeatureEnumSet(w2, fault, "ExposureAuto", "ExposureAuto",
                                w2.src.exposureauto)
        w4 == VmbFeatureEnumSet(w3, fault, "BalanceWhiteAuto", "BalanceWhiteAuto",
                                w3.src.balancewhiteauto)
        w5 == VmbFeatureFloatSet(w4, fault, "Gain", "Gain", w4.src.gain)
    IN  IF w5.result # "Success" THEN w5
        ELSE apply_trigger_settings(set_roi(w5, fault, garbage), fault)

apply_feature_settings_NoStop(w, fault, garbage) ==
    LET w5 == VmbFeatureFloatSet(w, fault, "Gain", "Gain", w.src.gain)
        w7 == apply_trigger_settings(set_roi(w5, fault, garbage), fault)
    IN  IF w.src.is_acquiring THEN start_image_acquisition(w7, fault) ELSE w7

apply_feature_settings(w, fault, garbage) ==
    LET was_acquiring == w.src.is_acquiring
        w1 == IF was_acquiring THEN stop_image_acquisition(w, fault) ELSE w
        w2 == SetExposureTime(w1, fault)
        w3 == VmbFeatureEnumSet(w2, fault, "ExposureAuto", "ExposureAuto",
                                w2.src.exposureauto)
        w4 == VmbFeatureEnumSet(w3, fault, "BalanceWhiteAuto", "BalanceWhiteAuto",
                                w3.src.balancewhiteauto)
        w5 == VmbFeatureFloatSet(w4, fault, "Gain", "Gain", w4.src.gain)
        roi == set_roi(w5, fault, garbage)
        w6 == [roi EXCEPT !.ev = Append(@, "set_roi:" \o roi.result)]
        w7 == apply_trigger_settings(w6, fault)
    IN  IF was_acquiring THEN start_image_acquisition(w7, fault) ELSE w7

\* gst_vmbsrc_start, with settings_file_path empty
gst_vmbsrc_start(fault, garbage) ==
    /\ phase = "null" /\ pc = "idle"
    /\ fq.next <= MaxQueues
    /\ (vmbsrc.is_connected => fault.at # "open")
    /\ LET w0 == NewQueue(World)
           w1 == IF ~w0.src.is_connected THEN open_camera_connection(w0, fault) ELSE w0
           w2 == IF w1.result = "Success" THEN apply_feature_settings(w1, fault, garbage)
                 ELSE w1
       IN  \E w \in {w2} :
           /\ vmbsrc' = w.src
           /\ dev' = w.dev
           /\ fq' = w.q
           /\ heap' = w.heap
           /\ settingsLog' = [called |-> w1.result = "Success",
                              was_acquiring |-> w1.src.is_acquiring,
                              acquiring |-> w.src.is_acquiring,
                              streaming |-> w.dev.acquiring /\ w.dev.engine,
                              result |-> w.result, calls |-> w.calls, ev |-> w.ev]
           /\ phase' = IF w.result = "Success" THEN "started" ELSE "null"
           /\ runState' = IF w.result = "Success" THEN "PAUSED" ELSE "READY"
    /\ pushedLog' = << >>
    /\ poppedLog' = << >>
    /\ capsLog' = NoCaps
    /\ UNCHANGED << lib, propRead, capsQuery, pc, frame, out, lastResult, emitted, callLog, stalePolls,
                    discarded >>

\* apply_feature_settings called on an element whose camera is open, in
\* whatever state the session is in.
ApplyFeatureSettings(fault, garbage) ==
    /\ phase \in {"started", "negotiated"} /\ pc = "idle"
    /\ vmbsrc.is_connected
    /\ \E w \in {apply_feature_settings(World, fault, garbage)} :
           /\ vmbsrc' = w.src
           /\ dev' = w.dev
           /\ fq' = w.q
           /\ heap' = w.heap
           /\ settingsLog' = [called |-> TRUE,
                              was_acquiring |-> vmbsrc.is_acquiring,
                              acquiring |-> w.src.is_acquiring,
                              streaming |-> w.dev.acquiring /\ w.dev.engine,
                              result |-> w.result, calls |-> w.calls, ev |-> w.ev]
    /\ UNCHANGED << lib, propRead, capsQuery, phase, runState, pc, frame, out, lastResult, emitted,
                    pushedLog, poppedLog, callLog, stalePolls, capsLog, discarded >>

\* ------------------------------------------------------------------------
\* gst_vmbsrc_stop
\* ------------------------------------------------------------------------
gst_vmbsrc_stop(fault) ==
    /\ phase \in {"started", "negotiated", "error"} /\ pc = "idle"
    /\ runState = "PAUSED"
    /\ \E w \in {UnrefQueue(revoke_and_free_buffers(stop_image_acquisition(World, fault)))} :
           /\ vmbsrc' = w.src
           /\ dev' = w.dev
           /\ fq' = w.q
           /\ heap' = w.heap
    /\ settingsLog' = NoSettings
    /\ phase' = "null"
    /\ runState' = "READY"
    /\ capsLog' = NoCaps
    /\ UNCHANGED << lib, propRead, capsQuery, pc, frame, out, lastResult, emitted, pushedLog, poppedLog, callLog,
                    stalePolls,
                    discarded >>

\* ------------------------------------------------------------------------
\* gst_vmbsrc_get_caps.  vmb_width and vmb_height are not initialised and
\* the results of VmbFeatureIntGet are not looked at: after a failed call
\* they hold whatever the stack held (garbage).
\* ------------------------------------------------------------------------
starts_with(str, prefix) ==
    Len(str) >= Len(prefix) /\ SubSeq(str, 1, Len(prefix)) = prefix

FormatNames(formats) == [i \in 1..Len(formats) |-> formats[i].gst_format_name]

GetCapsFormats_All(bayer) == FormatNames(supported_formats)

\* The pipeline names of the supported formats that go to one alternative
GetCapsFormats(bayer) ==
    FormatNames(SelectSeq(supported_formats,
                          LAMBDA f : starts_with(f.vimbax_format_name, "Bayer") = bayer))

GetCaps_Connected(src, d, fault, garbage) ==
    LET vmb_width == IF fault.at = "getwidth" THEN garbage ELSE d.roi.Width
        vmb_height == IF fault.at = "getheight" THEN garbage ELSE d.roi.Height
        Fix(st, bayer) == [st EXCEPT !.width = FixedInt(vmb_width),
                                     !.height = FixedInt(vmb_height),
                                     !.framerate = "0/1",
                                     !.format = GetCapsFormats(bayer)]
    IN  [caps |-> << Fix(TemplateCaps[1], FALSE), Fix(TemplateCaps[2], TRUE) >>,
         calls |-> << "VmbFeatureIntGet:Width", "VmbFeatureIntGet:Height" >>]

GetCaps_Always(src, d, fault, garbage) == GetCaps_Connected(src, d, fault, garbage)

GetCaps(src, d, fault, garbage) ==
    IF src.is_connected
    THEN GetCaps_Connected(src, d, fault, garbage)
    ELSE [caps |-> TemplateCaps, calls |-> << >>]

gst_vmbsrc_get_caps(fault, garbage) ==
    /\ phase # "crashed"
    /\ LET got == GetCaps(vmbsrc, dev, fault, garbage)
       IN  capsQuery' = [called |-> TRUE, connected |-> vmbsrc.is_connected,
                         caps |-> got.caps, calls |-> got.calls]
    /\ UNCHANGED << lib, propRead, vmbsrc, dev, fq, phase, runState, pc, frame, out, lastResult,
                    emitted, pushedLog, poppedLog, callLog, stalePolls, capsLog,
                    heap, discarded, settingsLog >>

\* ------------------------------------------------------------------------
\* The pipeline's lifecycle controller and the application
\* ------------------------------------------------------------------------
SetStatePlaying ==
    /\ phase \in {"started", "negotiated"} /\ runState = "PAUSED"
    /\ runState' = "PLAYING"
    /\ stalePolls' = 0
    /\ UNCHANGED << lib, propRead, capsQuery, vmbsrc, dev, fq, phase, pc, frame, out, lastResult, emitted, pushedLog,
                    poppedLog, callLog, capsLog,
                    heap, discarded, settingsLog >>

SetStatePaused ==
    /\ phase # "crashed" /\ runState = "PLAYING"
    /\ runState' = "PAUSED"
    /\ UNCHANGED << lib, propRead, capsQuery, vmbsrc, dev, fq, phase, pc, frame, out, lastResult, emitted, pushedLog,
                    poppedLog, callLog, stalePolls, capsLog,
                    heap, discarded, settingsLog >>

\* gst_vmbsrc_set_property, PROP_INCOMPLETE_FRAME_HANDLING
SetIncompleteFrameHandling(v) ==
    /\ phase # "crashed"
    /\ vmbsrc.incomplete_frame_handling # v
    /\ vmbsrc' = [vmbsrc EXCEPT !.incomplete_frame_handling = v]
    /\ UNCHANGED << lib, propRead, capsQuery, dev, fq, phase, runState, pc, frame, out, lastResult, emitted,
                    pushedLog, poppedLog, callLog, stalePolls, capsLog,
                    heap, discarded, settingsLog >>

\* gst_vmbsrc_set_property, PROP_ALLOCATION_MODE
SetAllocationMode(v) ==
    /\ phase # "crashed"
    /\ vmbsrc.allocation_mode # v
    /\ vmbsrc' = [vmbsrc EXCEPT !.allocation_mode = v]
    /\ UNCHANGED << lib, propRead, capsQuery, dev, fq, phase, runState, pc, frame, out, lastResult, emitted,
                    pushedLog, poppedLog, callLog, stalePolls, capsLog,
                    heap, discarded, settingsLog >>

\* gst_vmbsrc_set_property, PROP_WIDTH
SetWidth(v) ==
    /\ phase # "crashed"
    /\ vmbsrc.width # v
    /\ vmbsrc' = [vmbsrc EXCEPT !.width = v]
    /\ UNCHANGED << lib, propRead, capsQuery, dev, fq, phase, runState, pc, frame, out,
                    lastResult, emitted, pushedLog, poppedLog, callLog, stalePolls, capsLog,
                    heap, discarded, settingsLog >>

\* ------------------------------------------------------------------------
\* gst_vmbsrc_get_property.  An enum value is the position of its entry in
\* the GEnumValue table of its type, counted from 0; the element's enum
\* fields hold the name of the entry.
\* ------------------------------------------------------------------------
exposureauto_modes == << "Off", "Once", "Continuous" >>

triggerselector_values ==
    << "UNCHANGED", "AcquisitionStart", "AcquisitionEnd", "AcquisitionActive",
       "FrameStart", "FrameEnd", "FrameActive", "FrameBurstStart", "FrameBurstEnd",
       "FrameBurstActive", "LineStart", "ExposureStart", "ExposureEnd", "ExposureActive" >>

triggermode_values == << "UNCHANGED", "Off", "On" >>

triggersource_values ==
    << "UNCHANGED", "Line0", "Line1", "Line2", "Line3",
       "Action0", "Action1", "Action2", "Action3" >>

triggeractivation_values ==
    << "UNCHANGED", "RisingEdge", "FallingEdge", "AnyEdge", "LevelHigh", "LevelLow" >>

incompleteframehandling_values == << "DROP", "SUBMIT" >>

allocationmode_values == << "ANNOUNCE_FRAME", "ALLOC_AND_ANNOUNCE_FRAME" >>

TriggerProperties ==
    {"triggerselector", "triggermode", "triggersource", "triggeractivation"}

EnumTable(id) ==
    CASE id = "triggerselector" -> triggerselector_values
      [] id = "triggermode" -> triggermode_values
      [] id = "triggersource" -> triggersource_values
      [] id = "triggeractivation" -> triggeractivation_values
      [] id = "incomplete_frame_handling" -> incompleteframehandling_values
      [] id = "allocation_mode" -> allocationmode_values
      [] OTHER -> exposureauto_modes

\* g_enum_get_value_by_nick(...)->value; -1 stands for the NULL it returns
\* for a nick the table does not hold
EnumValueByNick(table, nick) ==
    IF InSeq(nick, table) THEN (CHOOSE k \in 1..Len(table) : table[k] = nick) - 1 ELSE -1

\* The entry an enum field shows for a value; a value outside the table has
\* no entry
EnumEntry(table, v) == IF v + 1 \in 1..Len(table) THEN table[v + 1] ELSE "OutOfRange"

\* What the camera answers to VmbFeatureEnumGet for a trigger feature
DeviceValues(id) ==
    CASE id = "triggerselector" -> {"AcquisitionStart", "FrameStart"}
      [] id = "triggermode" -> {"Off", "On"}
      [] id = "triggersource" -> {"Line0", "Software"}
      [] id = "triggeractivation" -> {"RisingEdge", "LevelHigh"}
      [] OTHER -> {"none"}

\* case PROP_ALLOCATION_MODE of gst_vmbsrc_get_property
ReadAllocationMode(src) ==
    EnumValueByNick(incompleteframehandling_values, src.incomplete_frame_handling)

\* The trigger cases, PROP_INCOMPLETE_FRAME_HANDLING and
\* PROP_ALLOCATION_MODE: the element after the call, the value put into
\* the GValue, and whether the lookup of the device's answer gave NULL,
\* which is then dereferenced.
GetProperty(src, id, device, ok) ==
    IF id \in TriggerProperties
    THEN LET v == EnumValueByNick(EnumTable(id), device)
         IN  [src |-> IF ok /\ v >= 0
                      THEN [src EXCEPT !.exposureauto = EnumEntry(exposureauto_modes, v)]
                      ELSE src,
              value |-> EnumValueByNick(EnumTable(id), src[id]),
              null |-> ok /\ v < 0]
    ELSE [src |-> src,
          value |-> IF id = "allocation_mode"
                    THEN ReadAllocationMode(src)
                    ELSE EnumValueByNick(incompleteframehandling_values,
                                         src.incomplete_frame_handling),
          null |-> FALSE]

gst_vmbsrc_get_property(id, device, ok) ==
    /\ phase # "crashed"
    /\ device \in DeviceValues(id)
    /\ ok => (vmbsrc.is_connected /\ id \in TriggerProperties)
    /\ LET got == GetProperty(vmbsrc, id, device, ok)
       IN  /\ vmbsrc' = got.src
           /\ phase' = IF got.null THEN "crashed" ELSE phase
           /\ propRead' = [called |-> TRUE, id |-> id, value |-> got.value,
                           ok |-> ok /\ ~got.null, device |-> device]
    /\ UNCHANGED << lib, capsQuery, dev, fq, runState, pc, frame, out, lastResult, emitted,
                    pushedLog, poppedLog, callLog, stalePolls, capsLog,
                    heap, discarded, settingsLog >>

\* ------------------------------------------------------------------------
\* Specifications
\* ------------------------------------------------------------------------
\* Streaming: the callback and the streaming thread under every
\* interleaving, with the life cycle around them.
StreamFaults == {NoFault, Fault("pixfmt")}

Next ==
    \/ \E status \in {"Complete", "Incomplete"}, outcome \in {"pushed", "lost", "crash"} :
          vimbax_frame_callback(status, outcome)
    \/ CreateBegin
    \/ CreatePop
    \/ CreateCheckState
    \/ CreateStatus
    \/ \E ok \in BOOLEAN : CreateAlloc(ok)
    \/ CreateTimestamp
    \/ CreateCopy
    \/ CreateRequeue
    \/ CreateFinish
    \/ \E f \in RequestedFormats, fault \in StreamFaults :
          gst_vmbsrc_set_caps(f, fault, 0)
    \/ gst_vmbsrc_start(NoFault, 0)
    \/ gst_vmbsrc_stop(NoFault)
    \/ SetStatePlaying
    \/ SetStatePaused
    \/ \E v \in {"DROP", "SUBMIT"} : SetIncompleteFrameHandling(v)

Spec == Init /\ [][Next]_vars

\* Negotiation: format commits with every device call that can be rejected,
\* in both allocation modes, with the driver delivering frames in between.
NextCaps ==
    \/ \E status \in {"Complete", "Incomplete"}, outcome \in {"pushed", "lost", "crash"} :
          vimbax_frame_callback(status, outcome)
    \/ \E f \in RequestedFormats, fault \in SetCapsFaults, garbage \in {0, 3} :
          gst_vmbsrc_set_caps(f, fault, garbage)
    \/ \E fault \in StartFaults : gst_vmbsrc_start(fault, 0)
    \/ \E fault \in StopFaults : gst_vmbsrc_stop(fault)
    \/ SetStatePlaying
    \/ SetStatePaused
    \/ \E v \in {"ANNOUNCE_FRAME", "ALLOC_AND_ANNOUNCE_FRAME"} : SetAllocationMode(v)

SpecCaps == Init /\ [][NextCaps]_vars

\* Settings: the element is started with the trigger and ROI properties
\* the application gave it at construction, on a camera that holds the
\* region of interest of its last use, with every feature call that can be
\* rejected.
SettingsFaults ==
    {NoFault, Fault("open")}
    \cup { Fault(a) : a \in {"ExposureTime", "ExposureTimeNotFound",
                             "ExposureAuto", "BalanceWhiteAuto", "Gain",
                             "OffsetXReset", "OffsetYReset",
                             "WidthRange", "Width", "HeightRange", "Height",
                             "OffsetXRange", "OffsetXIncrement", "OffsetX",
                             "OffsetYRange", "OffsetYIncrement", "OffsetY",
                             "TriggerSelector", "TriggerActivation",
                             "TriggerSource", "TriggerMode"} }

Garbage == {0, 3}

InitSettings ==
    /\ \E sel \in {"UNCHANGED", "FrameStart"}, act \in {"UNCHANGED", "RisingEdge"},
          source \in {"UNCHANGED", "Line0"}, mode \in {"UNCHANGED", "On"},
          width \in {INT_MAX, 2, 3}, offsetx \in {-1, 0, 2}, offsety \in {-1, 0},
          exposuretime \in {0, 1} :
          vmbsrc = [NewElement EXCEPT !.exposuretime = exposuretime,
                                      !.triggerselector = sel,
                                      !.triggeractivation = act,
                                      !.triggersource = source,
                                      !.triggermode = mode,
                                      !.width = width,
                                      !.offsetx = offsetx,
                                      !.offsety = offsety]
    /\ \E roi \in {NewDevice.roi,
                    [Width |-> 2, Height |-> SensorHeight, OffsetX |-> 2, OffsetY |-> 0]} :
          dev = [NewDevice EXCEPT !.roi = roi]
    /\ InitPipeline

NextSettings ==
    \/ \E fault \in SettingsFaults, garbage \in Garbage :
          /\ garbage # 0 => fault.at \in {"WidthRange", "HeightRange"}
          /\ fault.at \in {"ExposureTime", "ExposureTimeNotFound"} => vmbsrc.exposuretime > 0
          /\ gst_vmbsrc_start(fault, garbage)
    \/ gst_vmbsrc_stop(NoFault)

SpecSettings == InitSettings /\ [][NextSettings]_vars

\* Capability queries: the pipeline asks for the capabilities before the
\* camera is opened, after a failed and after a successful start, with the
\* region of interest the settings left on the camera.
QueryFaults == {NoFault, Fault("getwidth"), Fault("getheight")}

NextQuery ==
    \/ \E fault \in QueryFaults, garbage \in Garbage :
          /\ garbage # 0 => fault # NoFault
          /\ gst_vmbsrc_get_caps(fault, garbage)
    \/ \E fault \in StartFaults : gst_vmbsrc_start(fault, 0)
    \/ gst_vmbsrc_stop(NoFault)

SpecQuery == InitSettings /\ [][NextQuery]_vars

\* Session: the settings are applied to an idle and to an acquiring
\* session, with every call of the stop and of the restart that can be
\* rejected and with frames delivered in between.
SessionFaults ==
    {NoFault} \cup { Fault(a) : a \in {"acqstop", "capstart", "acqstart", "isdone",
                                       "Width", "TriggerSelector"} }
              \cup { FaultAt("queue", k) : k \in Buffers }

NextSession ==
    \/ \E fault \in SessionFaults : ApplyFeatureSettings(fault, 0)
    \/ \E f \in RequestedFormats : gst_vmbsrc_set_caps(f, NoFault, 0)
    \/ \E status \in {"Complete", "Incomplete"} : vimbax_frame_callback(status, "pushed")
    \/ gst_vmbsrc_start(NoFault, 0)
    \/ \E fault \in StopFaults : gst_vmbsrc_stop(fault)

SpecSession == Init /\ [][NextSession]_vars

\* Pool: allocation, revocation and reallocation of the frame buffers with
\* the driver filling them and the streaming thread handing them back, on a
\* camera whose frame counter leaves room for one frame more than there are
\* buffers.
InitPool ==
    /\ vmbsrc = NewElement
    /\ dev = [NewDevice EXCEPT !.nextFrameID = MaxFrames - NUM_FRAME_BUFFERS]
    /\ InitPipeline

NextPool ==
    \/ \E outcome \in {"pushed", "lost", "crash"} : vimbax_frame_callback("Complete", outcome)
    \/ CreateBegin
    \/ CreatePop
    \/ CreateCheckState
    \/ CreateStatus
    \/ CreateAlloc(TRUE)
    \/ CreateTimestamp
    \/ CreateCopy
    \/ CreateRequeue
    \/ CreateFinish
    \/ \E f \in {"GRAY8", "RGB"}, fault \in SetCapsFaults : gst_vmbsrc_set_caps(f, fault, 0)
    \/ gst_vmbsrc_start(NoFault, 0)
    \/ gst_vmbsrc_stop(NoFault)
    \/ SetStatePlaying

SpecPool == InitPool /\ [][NextPool]_vars

\* Capacity: format commits and settings applications with the width
\* property changing in between, in both allocation modes.
\* apply_feature_settings is also called on a negotiated element.
NextCapacity ==
    \/ \E v \in {2, INT_MAX} : SetWidth(v)
    \/ \E v \in {"ANNOUNCE_FRAME", "ALLOC_AND_ANNOUNCE_FRAME"} : SetAllocationMode(v)
    \/ gst_vmbsrc_start(NoFault, 0)
    \/ gst_vmbsrc_stop(NoFault)
    \/ \E f \in {"GRAY8", "RGB"}, fault \in {NoFault, Fault("payload")} :
          gst_vmbsrc_set_caps(f, fault, 0)
    \/ ApplyFeatureSettings(NoFault, 0)

SpecCapacity == Init /\ [][NextCapacity]_vars

\* Waiting: one negotiated run with either incomplete-frame policy, the
\* driver delivering frames and the application pausing and resuming.  The
\* streaming thread is scheduled again and again: a step of
\* gst_vmbsrc_create that can be taken is taken.
InitLive ==
    /\ \E policy \in {"DROP", "SUBMIT"} :
          vmbsrc = [NewElement EXCEPT !.incomplete_frame_handling = policy]
    /\ dev = NewDevice
    /\ InitPipeline

CreateSteps ==
    \/ CreatePop
    \/ CreateCheckState
    \/ CreateStatus
    \/ CreateAlloc(TRUE)
    \/ CreateTimestamp
    \/ CreateCopy
    \/ CreateRequeue
    \/ CreateFinish

NextLive ==
    \/ \E status \in {"Complete", "Incomplete"}, outcome \in {"pushed", "lost", "crash"} :
          vimbax_frame_callback(status, outcome)
    \/ CreateBegin
    \/ CreateSteps
    \/ gst_vmbsrc_set_caps("GRAY8", NoFault, 0)
    \/ gst_vmbsrc_start(NoFault, 0)
    \/ SetStatePlaying
    \/ SetStatePaused

SpecLive == InitLive /\ [][NextLive]_vars /\ WF_vars(CreateSteps)

\* ------------------------------------------------------------------------
\* The VmbC library and vmb_open_count.  Every thread creates elements
\* (gst_vmbsrc_init) and finalizes them (gst_vmbsrc_finalize), one element
\* at a time; vmb_open_count++ and --vmb_open_count are a read and a write
\* of the counter, both inside G_LOCK / G_UNLOCK.
\* lib.tpc[t] is the position of thread t, lib.seen[t] the value it read,
\* lib.up whether the library is started; lib.ups and lib.downs count the
\* writes that took the counter from 0 to 1 and from 1 to 0.
\* ------------------------------------------------------------------------
\* Variant: the lock is not looked at.
LockFree_NoLock(lock) == TRUE

\* G_LOCK succeeds when no thread holds the mutex
LockFree(lock) == lock = 0

LibStep(l) ==
    /\ lib' = l
    /\ UNCHANGED << vmbsrc, dev, fq, phase, runState, pc, frame, out, lastResult,
                    emitted, pushedLog, poppedLog, callLog, stalePolls, capsLog,
                    heap, discarded, settingsLog, capsQuery, propRead >>

InitLock(t) ==
    /\ lib.tpc[t] = "none" /\ lib.created < MaxCreations
    /\ LockFree(lib.lock)
    /\ LibStep([lib EXCEPT !.lock = t, !.tpc[t] = "init_read", !.created = @ + 1])

InitRead(t) ==
    /\ lib.tpc[t] = "init_read"
    /\ LibStep([lib EXCEPT !.seen[t] = lib.count, !.tpc[t] = "init_write"])

InitIncrement(t) ==
    /\ lib.tpc[t] = "init_write"
    /\ LibStep([lib EXCEPT !.count = lib.seen[t] + 1,
                           !.ups = IF lib.count = 0 /\ lib.seen[t] + 1 = 1 THEN @ + 1 ELSE @,
                           !.tpc[t] = IF 0 = lib.seen[t] THEN "init_startup" ELSE "init_unlock"])

InitStartup(t) ==
    /\ lib.tpc[t] = "init_startup"
    /\ LibStep([lib EXCEPT !.up = TRUE, !.startups = @ + 1, !.tpc[t] = "init_unlock"])

InitUnlock(t) ==
    /\ lib.tpc[t] = "init_unlock"
    /\ LibStep([lib EXCEPT !.lock = 0, !.tpc[t] = "live"])

FinalizeLock(t) ==
    /\ lib.tpc[t] = "live"
    /\ LockFree(lib.lock)
    /\ LibStep([lib EXCEPT !.lock = t, !.tpc[t] = "fin_read"])

FinalizeRead(t) ==
    /\ lib.tpc[t] = "fin_read"
    /\ LibStep([lib EXCEPT !.seen[t] = lib.count, !.tpc[t] = "fin_write"])

FinalizeDecrement(t) ==
    /\ lib.tpc[t] = "fin_write"
    /\ LibStep([lib EXCEPT !.count = lib.seen[t] - 1,
                           !.downs = IF lib.count = 1 /\ lib.seen[t] - 1 = 0 THEN @ + 1 ELSE @,
                           !.tpc[t] = IF 0 = lib.seen[t] - 1 THEN "fin_shutdown" ELSE "fin_unlock"])

FinalizeShutdown(t) ==
    /\ lib.tpc[t] = "fin_shutdown"
    /\ LibStep([lib EXCEPT !.up = FALSE, !.shutdowns = @ + 1, !.tpc[t] = "fin_unlock"])

FinalizeUnlock(t) ==
    /\ lib.tpc[t] = "fin_unlock"
    /\ LibStep([lib EXCEPT !.lock = 0, !.tpc[t] = "none"])

InitLib ==
    /\ vmbsrc = NewElement
    /\ dev = NewDevice
    /\ InitIdle
    /\ lib = NoLibrary

NextLib ==
    \E t \in Threads :
        \/ InitLock(t)
        \/ InitRead(t)
        \/ InitIncrement(t)
        \/ InitStartup(t)
        \/ InitUnlock(t)
        \/ FinalizeLock(t)
        \/ FinalizeRead(t)
        \/ FinalizeDecrement(t)
        \/ FinalizeShutdown(t)
        \/ FinalizeUnlock(t)

SpecLib == InitLib /\ [][NextLib]_vars

\* Properties: the application writes and reads the element's properties
\* while the element is stopped or started.
ReadableProperties == TriggerProperties \cup {"incomplete_frame_handling", "allocation_mode"}

NextProps ==
    \/ \E id \in ReadableProperties, ok \in BOOLEAN :
          \E device \in DeviceValues(id) : gst_vmbsrc_get_property(id, device, ok)
    \/ \E v \in {"DROP", "SUBMIT"} : SetIncompleteFrameHandling(v)
    \/ \E v \in {"ANNOUNCE_FRAME", "ALLOC_AND_ANNOUNCE_FRAME"} : SetAllocationMode(v)
    \/ gst_vmbsrc_start(NoFault, 0)
    \/ gst_vmbsrc_stop(NoFault)

SpecProps == Init /\ [][NextProps]_vars


\* ------------------------------------------------------------------------
\* Properties
\* ------------------------------------------------------------------------
\* C1: FIFO delivery.  The frames the callback pushed onto the live queue
\* are the frames gst_vmbsrc_create has popped so far followed by the
\* frames still waiting, in the same order: nothing is reordered or dropped
\* by the queue.
FIFO_C1 ==
    fq.live # 0 => pushedLog = poppedLog \o QueueEntries

FIFO_C1_Witness ==
    /\ Len(pushedLog) >= 2
    /\ poppedLog # << >>
    /\ fq.content # << >>
    /\ fq.live # 0

\* The streaming thread holds a frame from the pop until it has handed it
\* back with VmbCaptureFrameQueue.
HeldByDispatcher(b) == frame = b /\ pc # "finish"

Places(b) ==
    (IF InSeq(b, dev.captureQueue) THEN 1 ELSE 0)
  + Len(SelectSeq(fq.content, LAMBDA x : x = b))
  + (IF HeldByDispatcher(b) THEN 1 ELSE 0)

\* C2: ownership exclusivity.  Every buffer is in at most one of: the
\* device's capture queue, the filled-frame queue, the streaming thread.
Ownership_C2 ==
    \A b \in Buffers : Places(b) <= 1

Ownership_C2_Witness ==
    /\ pc = "copy"
    /\ fq.content # << >>
    /\ \A b \in Buffers : Places(b) = 1

\* C3: cancellation.  Once the state is not PLAYING the waiting call makes
\* at most one more pop, and the state check that sees it returns
\* GST_FLOW_FLUSHING without emitting a buffer.
Cancel_C3 ==
    [][ /\ stalePolls' <= 1
        /\ (pc = "check" /\ runState # "PLAYING" /\ pc' # pc)
              => (pc' = "idle" /\ lastResult' = "FLUSHING" /\ emitted' = emitted
                    /\ vmbsrc'.num_frames_pushed = vmbsrc.num_frames_pushed) ]_vars

Cancel_C3_Witness ==
    /\ pc = "idle"
    /\ lastResult = "FLUSHING"
    /\ stalePolls = 1

\* C4: a call that returns GST_FLOW_FLUSHING has removed no frame from the
\* filled-frame queue.
FlushingConsumesNothing_C4 ==
    (pc = "idle" /\ lastResult = "FLUSHING") => ~InSeq("pop", callLog)

FrameIncomplete == frame # 0 /\ vmbsrc.frame_buffers[frame].receiveStatus = "Incomplete"

\* C5: Incomplete-Drop.  With policy Drop an incomplete frame is not
\* emitted: the status step queues its buffer at the device once and goes
\* back to waiting, and no result is reported.
IncompleteDrop_C5 ==
    [][ (pc = "status" /\ FrameIncomplete /\ vmbsrc.incomplete_frame_handling = "DROP"
           /\ pc' # pc)
          => /\ pc' = "pop"
             /\ emitted' = emitted
             /\ lastResult' = lastResult
             /\ ~InSeq(frame, dev.captureQueue)
             /\ dev'.captureQueue = Append(dev.captureQueue, frame)
             /\ callLog' = Append(callLog, "drop_requeue") ]_vars

IncompleteDrop_C5_Witness ==
    /\ pc = "pop"
    /\ callLog # << >>
    /\ callLog[Len(callLog)] = "drop_requeue"

\* An output carries an annotation when its video-meta frame flags or its
\* buffer flags are set.
Annotated(b) == b.flags # "NONE" \/ b.buffer_flags # {}

RECURSIVE SinceLastPop(_)
SinceLastPop(log) ==
    IF log = << >> THEN << >>
    ELSE IF log[Len(log)] = "pop" THEN << >>
    ELSE Append(SinceLastPop(SubSeq(log, 1, Len(log) - 1)), log[Len(log)])

\* C7: an emitted frame is timestamped, then copied, then requeued.  Until
\* the copy is done the buffer is not at the device, the steps of an
\* emitting call are in that order with one requeue, and every output holds
\* the payload of the frame it was made from.
EmitOrder_C7 ==
    /\ (pc \in {"alloc", "timestamp", "copy", "requeue"} => ~InSeq(frame, dev.captureQueue))
    /\ (pc = "finish" \/ (pc = "idle" /\ lastResult = "OK"))
          => SinceLastPop(callLog) = << "alloc", "timestamp", "copy", "requeue" >>
    /\ \A k \in 1..Len(emitted) : emitted[k].data = emitted[k].src_frameID

EmitOrder_C7_Witness ==
    /\ pc = "idle" /\ lastResult = "OK"
    /\ emitted # << >>
    /\ \E b \in Buffers : vmbsrc.frame_buffers[b].frameID > emitted[Len(emitted)].src_frameID

\* C8: sequence numbers.  The k-th emitted output carries offset k-1 and
\* offset_end k, and the counter equals the number of outputs emitted, so
\* calls that flush or drop leave it alone.
SequenceNumbers_C8 ==
    /\ vmbsrc.num_frames_pushed = Len(emitted)
    /\ \A k \in 1..Len(emitted) :
          emitted[k].offset = k - 1 /\ emitted[k].offset_end = k

SequenceNumbers_C8_Witness ==
    /\ Len(emitted) >= 2
    /\ pc = "idle" /\ lastResult = "FLUSHING"


\* Position of the first x in s, 0 when s holds none
Pos(x, s) == IF InSeq(x, s) THEN CHOOSE k \in 1..Len(s) : s[k] = x /\ \A j \in 1..(k - 1) : s[j] # x
             ELSE 0

\* C9: reallocation trigger.  After the pixel format was set, a payload
\* size that cannot be read or that exceeds the capacity of the allocated
\* buffers makes gst_vmbsrc_set_caps revoke and then allocate, both before
\* any start of acquisition; a readable payload size within the capacity
\* makes it do neither.
Reallocation_C9 ==
    (capsLog.called /\ InSeq("PixelFormat", capsLog.ev))
       => IF ~capsLog.readable \/ capsLog.payload > capsLog.capacity
          THEN /\ Pos("revoke", capsLog.ev) > 0
               /\ Pos("alloc", capsLog.ev) = Pos("revoke", capsLog.ev) + 1
               /\ (InSeq("start", capsLog.ev)
                     => Pos("start", capsLog.ev) > Pos("alloc", capsLog.ev))
          ELSE ~InSeq("revoke", capsLog.ev) /\ ~InSeq("alloc", capsLog.ev)

Reallocation_C9_Witness ==
    /\ capsLog.called /\ capsLog.ret
    /\ capsLog.capacity > 0
    /\ capsLog.payload > capsLog.capacity
    /\ InSeq("start", capsLog.ev)

\* C10: gst_vmbsrc_set_caps returns TRUE only when no step was rejected
\* (a payload size that cannot be read is handled by reallocating, a
\* rejected stop command is tolerated), and when it returns FALSE the
\* session is not acquiring.
SetCapsAllOrNothing_C10 ==
    capsLog.called
       => /\ (capsLog.ret => capsLog.rejected \in {"none", "acqstop", "payload"})
          /\ (~capsLog.ret => ~capsLog.acquiring)

\* A step that is a call of gst_vmbsrc_set_caps
SetCapsStep == capsLog' # capsLog /\ capsLog'.called

Listed(gst_format) ==
    \E i \in 1..Len(supported_formats) : supported_formats[i].gst_format_name = gst_format

\* C11: a requested format that the supported-format list does not hold
\* makes gst_vmbsrc_set_caps return FALSE and leaves the element, the
\* device (acquisition, pixel format, announced and queued buffers) and the
\* filled-frame queue as they were.
FormatNotSupported_C11 ==
    [][ (SetCapsStep /\ ~Listed(capsLog'.requested))
          => /\ ~capsLog'.ret
             /\ vmbsrc' = vmbsrc
             /\ dev' = dev
             /\ fq' = fq ]_vars

FormatNotSupported_C11_Witness ==
    /\ capsLog.called /\ ~Listed(capsLog.requested)
    /\ vmbsrc.is_acquiring /\ dev.acquiring
    /\ fq.content # << >>
    /\ \A b \in Buffers : b \in dev.announced

\* C12: a format change discards the frames that wait in the queue.  No
\* frame that waited in a queue when gst_vmbsrc_set_caps replaced it is in
\* the live queue, in the hands of the streaming thread or in an emitted
\* buffer; and the call stops acquisition, then replaces the queue, then
\* sets the pixel format.
DiscardOnFormatChange_C12 ==
    /\ \A k \in 1..Len(emitted) : emitted[k].src_frameID \notin discarded
    /\ \A k \in 1..Len(fq.content) : QueueEntries[k].id \notin discarded
    /\ (pc \in {"status", "alloc", "timestamp", "copy", "requeue"}
          => vmbsrc.frame_buffers[frame].frameID \notin discarded)
    /\ (capsLog.called /\ capsLog.matched)
          => /\ Pos("CaptureEnd", capsLog.ev) > 0
             /\ Pos("QueueFlush", capsLog.ev) < Pos("newqueue", capsLog.ev)
             /\ Pos("CaptureEnd", capsLog.ev) < Pos("newqueue", capsLog.ev)
             /\ \A k \in 1..Len(capsLog.ev) :
                   capsLog.ev[k] \in {"PixelFormat", "PixelFormatFailed"}
                      => Pos("newqueue", capsLog.ev) < k

DiscardOnFormatChange_C12_Witness ==
    /\ pc = "idle" /\ lastResult = "OK"
    /\ \E id \in discarded : emitted[Len(emitted)].src_frameID > id

\* gst_vmbsrc_stop can run, so revoke_and_free_buffers is about to be called
\* on the pool as it is.
RevokeCallable ==
    pc = "idle" /\ phase \in {"started", "negotiated", "error"} /\ runState = "PAUSED"

AllZeroed(src) == \A b \in Buffers : src.frame_buffers[b] = ZeroFrame

\* C13: idempotent revoke.  On every pool the element can hold, allocated
\* or never allocated, revoke_and_free_buffers leaves all descriptors
\* zeroed, and a second call right after it revokes and frees nothing and
\* leaves them zeroed.
RevokeIdempotent_C13 ==
    RevokeCallable
       => LET r1 == revoke_and_free_buffers(World)
              r2 == revoke_and_free_buffers(r1)
          IN  /\ AllZeroed(r1.src)
              /\ AllZeroed(r2.src)
              /\ r2.bufcalls = r1.bufcalls
              /\ r2.heap = r1.heap

HasBufCall(log, c, i, ok) == \E k \in 1..Len(log) : log[k] = BufCall(c, i, ok)

\* C14: when VmbAlignedAlloc fails for a buffer, alloc_and_announce_buffers
\* fails with VmbErrorResources and no buffer is left allocated or
\* announced.
AllocFailureReleases_C14 ==
    [][ (SetCapsStep /\ \E i \in Buffers :
                           HasBufCall(capsLog'.bufcalls, "VmbAlignedAlloc", i, FALSE))
          => /\ capsLog'.result = "Resources"
             /\ ~capsLog'.ret
             /\ heap'.live = {}
             /\ dev'.announced = {}
             /\ \A b \in Buffers : vmbsrc'.frame_buffers[b].buffer = "NULL" ]_vars

\* C15: when VmbFrameAnnounce is rejected for buffer i, the memory of that
\* buffer is freed and its descriptor zeroed, the loop ends there (nothing
\* is allocated or announced for a higher index, acquisition is not
\* started), and the call fails with the error of the device.
AnnounceFailure_C15 ==
    [][ SetCapsStep
          => \A i \in Buffers :
               HasBufCall(capsLog'.bufcalls, "VmbFrameAnnounce", i, FALSE)
                 => LET log == capsLog'.bufcalls
                    IN  /\ log[Len(log)] = BufCall("free", i, TRUE)
                        /\ log[Len(log) - 1] = BufCall("VmbFrameAnnounce", i, FALSE)
                        /\ vmbsrc'.frame_buffers[i] = ZeroFrame
                        /\ i \notin heap'.live
                        /\ \A k \in 1..Len(log) :
                              log[k].call \in {"VmbAlignedAlloc", "VmbFrameAnnounce"}
                                 => log[k].i <= i
                        /\ \A j \in Buffers :
                              j > i => (j \notin heap'.live
                                         /\ vmbsrc'.frame_buffers[j].buffer = "NULL")
                        /\ capsLog'.result = "Error"
                        /\ ~capsLog'.ret
                        /\ ~InSeq("start", capsLog'.ev) ]_vars

AnnounceFailure_C15_Witness ==
    /\ capsLog.called
    /\ HasBufCall(capsLog.bufcalls, "VmbFrameAnnounce", NUM_FRAME_BUFFERS, FALSE)
    /\ HasBufCall(capsLog.bufcalls, "VmbAlignedAlloc", NUM_FRAME_BUFFERS, TRUE)
    /\ 1 \in heap.live

\* A step that is a call of gst_vmbsrc_stop
StopStep == phase # "null" /\ phase' = "null"

\* C16: the capture session's state machine.  is_acquiring goes from false
\* to true only in a call that ran start_image_acquisition and from true to
\* false only in a call that ran stop_image_acquisition, and a stop while
\* the session is idle issues no device command.
SessionGuards_C16 ==
    [][ /\ (~vmbsrc.is_acquiring /\ vmbsrc'.is_acquiring)
              => (SetCapsStep /\ InSeq("start", capsLog'.ev))
        /\ (vmbsrc.is_acquiring /\ ~vmbsrc'.is_acquiring)
              => (StopStep \/ (SetCapsStep /\ capsLog'.matched))
        /\ (SetCapsStep /\ capsLog'.matched /\ ~vmbsrc.is_acquiring)
              => \A k \in 1..Len(capsLog'.ev) :
                    capsLog'.ev[k] \notin {"AcquisitionStop", "AcquisitionStopFailed",
                                           "CaptureEnd", "QueueFlush"} ]_vars

\* The device calls of start_image_acquisition when nothing is rejected
RECURSIVE Repeat(_, _)
Repeat(x, n) == IF n = 0 THEN << >> ELSE << x >> \o Repeat(x, n - 1)

StartCalls ==
    << "CaptureStart" >> \o Repeat("FrameQueue", NUM_FRAME_BUFFERS)
                         \o << "AcquisitionStart", "IsDone" >>

\* What start_image_acquisition did in the last gst_vmbsrc_set_caps call
StartPart(ev) == SubSeq(ev, Pos("start", ev) + 1, Len(ev))

\* C17: start_image_acquisition starts the capture engine, queues all
\* buffers, runs AcquisitionStart and polls for its completion, in that
\* order; when the command is rejected or the completion query fails the
\* call returns an error and the session is not marked acquiring.
StartFailure_C17 ==
    (capsLog.called /\ InSeq("start", capsLog.ev))
       => LET part == StartPart(capsLog.ev)
          IN  /\ capsLog.rejected \notin {"capstart", "queue", "acqstart", "isdone"}
                    => part = StartCalls
              /\ capsLog.rejected \in {"acqstart", "isdone"}
                    => /\ SubSeq(part, 1, NUM_FRAME_BUFFERS + 1)
                             = SubSeq(StartCalls, 1, NUM_FRAME_BUFFERS + 1)
                       /\ capsLog.result # "Success"
                       /\ ~capsLog.ret
                       /\ ~capsLog.acquiring

\* The sets of one kind of feature among the calls of the last
\* apply_feature_settings, as (feature, value sent) pairs in call order.
TriggerFeatures == {"TriggerSelector", "TriggerActivation", "TriggerSource", "TriggerMode"}

RoiFeatures == {"Width", "Height", "OffsetX", "OffsetY"}

IsSet(c) == c.call \in {"VmbFeatureIntSet", "VmbFeatureEnumSet", "VmbFeatureFloatSet"}

CallsOf(features) == SelectSeq(settingsLog.calls, LAMBDA c : c.feature \in features)

SetsOf(features) ==
    LET sets == SelectSeq(CallsOf(features), IsSet)
    IN  [k \in 1..Len(sets) |-> << sets[k].feature, sets[k].nick, sets[k].int >>]

WantedTrigger(f, n) == IF n = "UNCHANGED" THEN << >> ELSE << << f, n, 0 >> >>

\* C18: trigger ordering.  The trigger sets that apply_trigger_settings
\* issued are, in this order, one set of TriggerSelector, TriggerActivation,
\* TriggerSource and TriggerMode for each of these properties that is not
\* UNCHANGED, with the property's value, and no set for a property that is
\* UNCHANGED; a rejected set does not change what is issued after it.
TriggerOrdering_C18 ==
    settingsLog.called =>
        SetsOf(TriggerFeatures) =
            WantedTrigger("TriggerSelector", vmbsrc.triggerselector)
            \o WantedTrigger("TriggerActivation", vmbsrc.triggeractivation)
            \o WantedTrigger("TriggerSource", vmbsrc.triggersource)
            \o WantedTrigger("TriggerMode", vmbsrc.triggermode)

TriggerOrdering_C18_Witness ==
    /\ settingsLog.called
    /\ vmbsrc.triggerselector = "FrameStart"
    /\ vmbsrc.triggeractivation = "RisingEdge"
    /\ vmbsrc.triggersource = "Line0"
    /\ vmbsrc.triggermode = "On"
    /\ Len(SetsOf(TriggerFeatures)) = 4

\* C19: a rejected set of a sequencing-critical feature (Width, Height,
\* TriggerSelector) is the last call apply_feature_settings made to the
\* device, and apply_feature_settings reports a failure.
Critical(c) ==
    /\ IsSet(c)
    /\ c.feature \in {"Width", "Height", "TriggerSelector"}
    /\ ~c.ok

RejectionAborts_C19 ==
    \A k \in 1..Len(settingsLog.calls) :
        Critical(settingsLog.calls[k]) =>
            /\ k = Len(settingsLog.calls)
            /\ settingsLog.result # "Success"

\* C20: ROI ordering.  The first two calls set_roi makes are the sets of
\* OffsetX and OffsetY to 0, before any range query or set of Width or
\* Height, and the sets that follow are those of Width, Height, OffsetX
\* and OffsetY, in this order, once each.
RoiOrdering_C20 ==
    settingsLog.called =>
        LET calls == CallsOf(RoiFeatures)
            sets == SetsOf(RoiFeatures)
        IN  /\ Len(calls) >= 2
            /\ IsSet(calls[1]) /\ IsSet(calls[2])
            /\ Len(sets) = 6
            /\ sets[1] = << "OffsetX", "", 0 >>
            /\ sets[2] = << "OffsetY", "", 0 >>
            /\ [k \in 1..4 |-> sets[k + 2][1]] = << "Width", "Height", "OffsetX", "OffsetY" >>

RoiOrdering_C20_Witness ==
    /\ settingsLog.called
    /\ \A k \in 1..Len(settingsLog.calls) : settingsLog.calls[k].ok
    /\ SetsOf(RoiFeatures)[3] = << "Width", "", 2 >>
    /\ dev.roi = [Width |-> 2, Height |-> SensorHeight, OffsetX |-> 2, OffsetY |-> 0]

\* C21: ROI failure reporting.  When the device rejected at least one of
\* the six sets of set_roi (the two offset resets, Width, Height, OffsetX,
\* OffsetY), set_roi returned a failure.
RoiSetFailed ==
    \E k \in 1..Len(settingsLog.calls) :
        /\ settingsLog.calls[k].call = "VmbFeatureIntSet"
        /\ ~settingsLog.calls[k].ok

RoiFailureReported_C21 ==
    (settingsLog.called /\ RoiSetFailed) => ~InSeq("set_roi:Success", settingsLog.ev)

\* The last call of one kind for one feature among the calls of the last
\* apply_feature_settings
HasCall(c, f) ==
    \E k \in 1..Len(settingsLog.calls) :
        settingsLog.calls[k].call = c /\ settingsLog.calls[k].feature = f

LastCall(c, f) ==
    LET ks == { k \in 1..Len(settingsLog.calls) :
                  settingsLog.calls[k].call = c /\ settingsLog.calls[k].feature = f }
    IN  settingsLog.calls[CHOOSE k \in ks : \A j \in ks : j <= k]

Distance(a, b) == IF a >= b THEN a - b ELSE b - a

\* v is a multiple of the increment within [0, max] and no other such
\* value is nearer to the wanted one.
NearestValid(v, wanted, max, increment) ==
    LET valid == { u \in 0..max : u % increment = 0 }
    IN  /\ v \in valid
        /\ \A u \in valid : Distance(v, wanted) <= Distance(u, wanted)

\* Centering was asked for on an axis when set_roi queried the range of
\* the offset; the value it then set on the device is the centered one,
\* taken from the size maximum the device holds and the size set, brought
\* to the nearest valid value when both offset queries succeeded.
Centered(size, offset) ==
    HasCall("VmbFeatureIntRangeQuery", offset) =>
        LET wanted == (LastCall("VmbFeatureIntRangeQuery", size).int
                       - LastCall("VmbFeatureIntSet", size).int) \div 2
            range == LastCall("VmbFeatureIntRangeQuery", offset)
            rounded == /\ range.ok
                       /\ LastCall("VmbFeatureIntIncrementQuery", offset).ok
            set == LastCall("VmbFeatureIntSet", offset).int
        IN  IF rounded
            THEN NearestValid(set, wanted, range.int,
                              LastCall("VmbFeatureIntIncrementQuery", offset).int)
            ELSE set = wanted

\* C22: ROI centering.  With offsetx (offsety) = -1 the value set for
\* OffsetX (OffsetY) is floor((maximum of Width - width set) / 2), brought
\* to the nearest multiple of the increment within the range the device
\* reports for the offset, and the centered value itself when the range
\* or the increment query fails; for a sensor 1920 wide, width 640 and
\* increment 2 it is 640.
RoiCentering_C22 ==
    /\ RoundToNearestValidValue((1920 - 640) \div 2, 0, 1920 - 640, 2) = 640
    /\ settingsLog.called => Centered("Width", "OffsetX") /\ Centered("Height", "OffsetY")

\* C23: a capability query with no camera connected returns the template
\* capabilities unchanged and makes no device call.
QueryNotConnected_C23 ==
    (capsQuery.called /\ ~capsQuery.connected) =>
        /\ capsQuery.caps = TemplateCaps
        /\ capsQuery.calls = << >>

QueryNotConnected_C23_Witness ==
    /\ capsQuery.called
    /\ ~capsQuery.connected
    /\ ~vmbsrc.is_connected
    /\ settingsLog.result = "Error"

\* C24: a capability query with a camera connected reports every supported
\* format once: a format whose device name starts with "Bayer" in the
\* second (Bayer) alternative only, any other in the first alternative
\* only.  Both alternatives carry the same fixed width, the same fixed
\* height and the variable framerate 0/1.
Occurrences(x, seq) == Cardinality({ k \in 1..Len(seq) : seq[k] = x })

QueryPartition_C24 ==
    (capsQuery.called /\ capsQuery.connected) =>
        LET raw == capsQuery.caps[1]
            bayer == capsQuery.caps[2]
        IN  /\ \A i \in 1..Len(supported_formats) :
                   LET f == supported_formats[i]
                       isBayer == /\ Len(f.vimbax_format_name) >= 5
                                  /\ SubSeq(f.vimbax_format_name, 1, 5) = "Bayer"
                   IN  /\ Occurrences(f.gst_format_name, bayer.format)
                            = IF isBayer THEN 1 ELSE 0
                       /\ Occurrences(f.gst_format_name, raw.format)
                            = IF isBayer THEN 0 ELSE 1
            /\ Len(raw.format) + Len(bayer.format) = Len(supported_formats)
            /\ raw.width.fixed /\ raw.height.fixed
            /\ bayer.width = raw.width /\ bayer.height = raw.height
            /\ raw.framerate = "0/1" /\ bayer.framerate = "0/1"

QueryPartition_C24_Witness ==
    /\ capsQuery.called
    /\ capsQuery.connected
    /\ capsQuery.caps[1].format = << "GRAY8", "RGB" >>
    /\ capsQuery.caps[2].format = << "rggb" >>
    /\ capsQuery.caps[1].width = FixedInt(2)

\* The features of the sets of the last apply_feature_settings, in call order
SetFeatures ==
    LET sets == SelectSeq(settingsLog.calls, IsSet)
    IN  [k \in 1..Len(sets) |-> sets[k].feature]

Rejected(f) ==
    \E k \in 1..Len(settingsLog.calls) :
        settingsLog.calls[k].feature = f /\ IsSet(settingsLog.calls[k])
                                         /\ ~settingsLog.calls[k].ok

WantedName(f, n) == IF n = "UNCHANGED" THEN << >> ELSE << f >>

\* C25: best-effort settings.  Whichever of the sets of ExposureTime,
\* ExposureAuto, BalanceWhiteAuto and Gain the device rejects,
\* apply_feature_settings issues all of them (ExposureTime only for a
\* positive exposuretime, ExposureTimeAbs after ExposureTime was not found),
\* then the six sets of set_roi, then the trigger sets of every trigger
\* property that is not UNCHANGED.
BestEffort_C25 ==
    settingsLog.called =>
        SetFeatures =
            (IF vmbsrc.exposuretime > 0
             THEN IF Len(SetFeatures) >= 2 /\ SetFeatures[2] = "ExposureTimeAbs"
                  THEN << "ExposureTime", "ExposureTimeAbs" >>
                  ELSE << "ExposureTime" >>
             ELSE << >>)
            \o << "ExposureAuto", "BalanceWhiteAuto", "Gain",
                  "OffsetX", "OffsetY", "Width", "Height", "OffsetX", "OffsetY" >>
            \o WantedName("TriggerSelector", vmbsrc.triggerselector)
            \o WantedName("TriggerActivation", vmbsrc.triggeractivation)
            \o WantedName("TriggerSource", vmbsrc.triggersource)
            \o WantedName("TriggerMode", vmbsrc.triggermode)

BestEffort_C25_Witness ==
    /\ settingsLog.called
    /\ Rejected("Gain")
    /\ vmbsrc.exposuretime > 0
    /\ Len(SetFeatures) = 14

AllocFailureSurfaced_C27 ==
    InSeq("allocfailed", callLog) =>
        /\ phase # "crashed"
        /\ pc = "idle"
        /\ lastResult = "ERROR"
        /\ InSeq(frame, dev.captureQueue) \/ InSeq(frame, fq.content)

\* C28: after revoke_and_free_buffers, that is whenever the element is
\* stopped, no buffer is announced at the device, every descriptor is
\* zeroed and no memory the element allocated itself is left, in both
\* allocation modes.
RevokeDetachesAll_C28 ==
    phase = "null" =>
        /\ dev.announced = {}
        /\ AllZeroed(vmbsrc)
        /\ heap.live = {}

\* C29: stop_image_acquisition, called on an open camera in any state of
\* the session and with any one of its calls rejected, runs the
\* AcquisitionStop command, polls it, ends the capture and flushes the
\* capture queue, in this order; on return the session is not Acquiring
\* and no buffer is queued at the device; when the device rejected the
\* AcquisitionStop command the result is a failure.
StopOrder_C29 ==
    (vmbsrc.is_connected /\ pc = "idle" /\ phase # "crashed") =>
        \A fault \in {NoFault, Fault("acqstop"), Fault("stopdone"), Fault("capend")} :
            LET r == stop_image_acquisition(World, fault)
            IN  /\ Len(r.ev) = 4
                /\ r.ev[1] \in {"AcquisitionStop", "AcquisitionStopFailed"}
                /\ r.ev[2] \in {"StopIsDone", "StopIsDoneFailed"}
                /\ r.ev[3] \in {"CaptureEnd", "CaptureEndFailed"}
                /\ r.ev[4] = "QueueFlush"
                /\ ~r.src.is_acquiring
                /\ r.dev.captureQueue = << >>
                /\ fault.at = "acqstop" => r.result # "Success"

\* C30: the element holds exactly NUM_FRAME_BUFFERS buffer descriptors in
\* every state, whatever was allocated, revoked or reallocated, and the
\* filled-frame queue never holds more than NUM_FRAME_BUFFERS frames.
PoolBounds_C30 ==
    /\ DOMAIN vmbsrc.frame_buffers = Buffers
    /\ Cardinality(DOMAIN vmbsrc.frame_buffers) = NUM_FRAME_BUFFERS
    /\ Len(fq.content) <= NUM_FRAME_BUFFERS

\* The buffers were reallocated for a larger payload and the queue holds
\* every buffer, after the driver delivered one frame more than there are
\* buffers.
PoolBounds_C30_Witness ==
    /\ capsLog.called /\ capsLog.ret
    /\ capsLog.capacity > 0 /\ capsLog.payload > capsLog.capacity
    /\ Len(fq.content) = NUM_FRAME_BUFFERS
    /\ dev.nextFrameID > MaxFrames

\* C31: life cycle round trip.  A step of gst_vmbsrc_stop leaves the
\* session not acquiring, no buffer announced and every descriptor zeroed;
\* a step of gst_vmbsrc_set_caps that returns TRUE, also after an earlier
\* stop and start, leaves all NUM_FRAME_BUFFERS buffers announced and
\* waiting in the capture queue, the filled-frame queue empty and the
\* session acquiring.
LifecycleRoundTrip_C31 ==
    [][/\ (phase # "null" /\ phase' = "null")
          => /\ ~vmbsrc'.is_acquiring
             /\ dev'.announced = {}
             /\ AllZeroed(vmbsrc')
       /\ (phase' = "negotiated" /\ fq'.live # fq.live)
          => /\ dev'.announced = Buffers
             /\ \A b \in Buffers : InSeq(b, dev'.captureQueue)
             /\ Len(dev'.captureQueue) = NUM_FRAME_BUFFERS
             /\ fq'.content = << >>
             /\ vmbsrc'.is_acquiring]_vars

\* C32: a read of a trigger property that the camera answered leaves the
\* camera's value in the property's own field, returns that value, and
\* leaves exposureauto as it was.
TriggerReadBack_C32 ==
    [][(/\ propRead'.called /\ propRead'.ok
        /\ propRead'.id \in TriggerProperties
        /\ vmbsrc' # vmbsrc \/ propRead' # propRead)
         => /\ vmbsrc'[propRead'.id] = propRead'.device
            /\ propRead'.value = EnumValueByNick(EnumTable(propRead'.id), propRead'.device)
            /\ vmbsrc'.exposureauto = vmbsrc.exposureauto]_vars

\* C33: a read of the allocation mode returns the value of the
\* allocation-mode field, that is the value last written to it, whatever
\* the incomplete-frame-handling field holds.
AllocationModeReadBack_C33 ==
    [][(propRead' # propRead /\ propRead'.id = "allocation_mode")
         => propRead'.value = EnumValueByNick(allocationmode_values,
                                              vmbsrc.allocation_mode)]_vars

\* C34: requeue routing.  Every buffer that waits in the device's capture
\* queue carries in context[0] the live filled-frame queue, the one
\* gst_vmbsrc_create pops from, also after gst_vmbsrc_set_caps replaced the
\* queue and kept the buffers.
RequeueRouting_C34 ==
    \A k \in 1..Len(dev.captureQueue) :
        /\ fq.live # 0
        /\ vmbsrc.frame_buffers[dev.captureQueue[k]].context = fq.live

\* C35: buffer conservation.  Between two calls of gst_vmbsrc_create, while
\* the session is acquiring, every frame buffer waits either in the
\* device's capture queue or in the filled-frame queue, whatever the last
\* call returned.
BufferConservation_C35 ==
    (/\ phase = "negotiated" /\ vmbsrc.is_acquiring
     /\ pc = "idle" /\ lastResult \in {"OK", "FLUSHING"})
       => \A b \in Buffers : InSeq(b, dev.captureQueue) \/ InSeq(b, fq.content)

\* C36: capacity.  While the session is acquiring, every announced buffer
\* has room for a frame of the device's current payload size, after any
\* sequence of format commits and settings applications.
CapacityInvariant_C36 ==
    vmbsrc.is_acquiring
       => \A b \in dev.announced : vmbsrc.frame_buffers[b].bufferSize >= PayloadSize(dev)

\* C37: memory ownership under changes of the allocation mode.  Memory the
\* element allocated itself is freed by revoke_and_free_buffers, once:
\* no block is left behind without a descriptor pointing to it and none
\* is live after the element stopped; memory the transport layer supplied
\* is never passed to VmbAlignedFree.
MemoryOwnership_C37 ==
    /\ ~heap.badFree
    /\ heap.lost = 0
    /\ phase = "null" => heap.live = {}

\* C38: acquisition flag.  Between the calls into the element,
\* is_acquiring is true exactly when the capture engine is engaged and the
\* AcquisitionStart command was accepted, and the engine is never engaged
\* while the flag is false.
AcquisitionFlag_C38 ==
    phase # "crashed"
       => /\ vmbsrc.is_acquiring <=> (dev.engine /\ dev.acquiring)
          /\ dev.engine => vmbsrc.is_acquiring

\* The driver has delivered a frame that will be submitted (a complete
\* one, or any frame with policy SUBMIT) when it ran vimbax_frame_callback
\* for it: the buffer has left the capture queue with its descriptor filled
\* in, and it either waits in the filled-frame queue or was never pushed
\* there.
FrameDelivered ==
    \E b \in Buffers :
        /\ ~InSeq(b, dev.captureQueue)
        /\ vmbsrc.frame_buffers[b].frameID > 0
        /\ \/ vmbsrc.frame_buffers[b].receiveStatus = "Complete"
           \/ vmbsrc.incomplete_frame_handling = "SUBMIT"
        /\ \/ InSeq(b, fq.content)
           \/ ~InSeq([buf |-> b, id |-> vmbsrc.frame_buffers[b].frameID], pushedLog)

\* C39: termination of gst_vmbsrc_create under fair scheduling of the
\* streaming thread.  A call that has begun returns if the element state is
\* at some time not PLAYING or the driver at some time delivers a frame
\* that will be submitted; and a call does not return without a buffer
\* while the state is PLAYING.
CreateTerminates_C39 ==
    /\ [](pc # "idle"
            => ((<>(runState # "PLAYING") \/ <>FrameDelivered) => <>(pc = "idle")))
    /\ [][(pc # "idle" /\ pc' = "idle" /\ lastResult' # "OK")
            => runState # "PLAYING"]_vars

\* C40: the reference count of the library.  VmbStartup has been called
\* once for every write that took vmb_open_count from 0 to 1 (the call
\* follows the write) and VmbShutdown once for every write that took it
\* from 1 to 0, and for no other; vmb_open_count is the number of live
\* elements, an element being live from the write that counted it in
\* gst_vmbsrc_init to the write that counts it out in gst_vmbsrc_finalize;
\* and the library is started while an element lives.
LibraryRefCount_C40 ==
    LET LiveElements ==
            { t \in Threads :
                lib.tpc[t] \in {"init_startup", "init_unlock", "live", "fin_read", "fin_write"} }
    IN  /\ lib.startups + Cardinality({t \in Threads : lib.tpc[t] = "init_startup"}) = lib.ups
        /\ lib.shutdowns + Cardinality({t \in Threads : lib.tpc[t] = "fin_shutdown"}) = lib.downs
        /\ lib.count = Cardinality(LiveElements)
        /\ (\E t \in LiveElements : lib.tpc[t] # "init_startup") => lib.up

\* Two elements live at once in the second session of the library: the
\* first session was shut down, the second started once.
LibraryRefCount_C40_Witness ==
    /\ lib.count = 2
    /\ \A t \in Threads : lib.tpc[t] \in {"none", "live"}
    /\ lib.startups = 2 /\ lib.shutdowns = 1

====
